---- MODULE Spec2Model ----
(***************************************************************************)
(* Stack-trace parsing and code-context extraction of CodebaseAnalyzer     *)
(* (src/src/services/CodebaseAnalyzer.ts).  Strings are sequences of       *)
(* one-character strings; regular expressions are sequences of elements    *)
(* run by a backtracking matcher with JavaScript's priority order.         *)
(***************************************************************************)
EXTENDS Integers, Sequences, FiniteSets, TLC

\* ------------------------------------------------------------------------
\* Characters and character classes
\* ------------------------------------------------------------------------
Lower ==
  {"a","b","c","d","e","f","g","h","i","j","k","l","m",
   "n","o","p","q","r","s","t","u","v","w","x","y","z"}

Upper ==
  {"A","B","C","D","E","F","G","H","I","J","K","L","M",
   "N","O","P","Q","R","S","T","U","V","W","X","Y","Z"}

\* \d
Digit ==
  {"0","1","2","3","4","5","6","7","8","9"}

\* \w
Word ==
  Lower \cup Upper \cup Digit \cup {"_"}

\* \s (the white space that occurs in the modelled inputs)
Space ==
  {" ", "\t", "\r", "\n"}

\* the backquote character (a string literal cannot hold it)
Backtick ==
  "BACKTICK"

Punct ==
  {":", "/", "\\", ".", Backtick, "'", "\"", "(", ")", ",", "{", "}", "=",
   "-", ">", "<", "!", "?", ";", "#"}

Char ==
  Word \cup Space \cup Punct

\* . (any character but a line terminator)
Dot ==
  Char \ {"\n", "\r"}

\* [^)]
NotRParen ==
  Char \ {")"}

\* ------------------------------------------------------------------------
\* Regular expressions: a pattern is a sequence of elements
\*   cls : a character class with a quantifier {min,max}, greedy or lazy
\*   lit : a literal string
\*   alt : ordered alternatives of literal strings, the empty one last if opt
\* open = g: capture group g starts before the element; close = g: capture
\* group g ends after it (0: none).
\* ------------------------------------------------------------------------
\* the upper limit of the quantifiers + and *
Inf ==
  1000000

Cls(S, mn, mx, lz, o, c) ==
  [k |-> "cls", set |-> S, min |-> mn, max |-> mx, lazy |-> lz, str |-> <<>>,
   alts |-> <<>>, opt |-> FALSE, open |-> o, close |-> c]

Lit(s) ==
  [k |-> "lit", set |-> {}, min |-> 1, max |-> 1, lazy |-> FALSE, str |-> s,
   alts |-> <<>>, opt |-> FALSE, open |-> 0, close |-> 0]

Alt(as, o) ==
  [k |-> "alt", set |-> {}, min |-> 0, max |-> 1, lazy |-> FALSE, str |-> <<>>,
   alts |-> as, opt |-> o, open |-> 0, close |-> 0]

\* (?:sub)* : greedy repetition of a sequence of elements
Rep(sub) ==
  [k |-> "rep", set |-> {}, min |-> 0, max |-> Inf, lazy |-> FALSE, str |-> <<>>,
   alts |-> <<>>, opt |-> FALSE, open |-> 0, close |-> 0, sub |-> sub]

\* $ : the end of the input
End ==
  [k |-> "end", set |-> {}, min |-> 0, max |-> 0, lazy |-> FALSE, str |-> <<>>,
   alts |-> <<>>, opt |-> FALSE, open |-> 0, close |-> 0]

\* X+   X*   X+?   X*?   X?   X (one character of a class)
Plus(S) ==
  Cls(S, 1, Inf, FALSE, 0, 0)

Star(S) ==
  Cls(S, 0, Inf, FALSE, 0, 0)

PlusLazy(S) ==
  Cls(S, 1, Inf, TRUE, 0, 0)

StarLazy(S) ==
  Cls(S, 0, Inf, TRUE, 0, 0)

Opt(S) ==
  Cls(S, 0, 1, FALSE, 0, 0)

One(S) ==
  Cls(S, 1, 1, FALSE, 0, 0)

\* (e) as capture group g; e(  and  )e for a group that spans several elements
Cap(e, g) ==
  [e EXCEPT !.open = g, !.close = g]

CapOpen(e, g) ==
  [e EXCEPT !.open = g]

CapClose(e, g) ==
  [e EXCEPT !.close = g]

\* the largest number of capture groups of a pattern
MaxGroups ==
  4

NoCaps ==
  [g \in 1..MaxGroups |-> <<0, 0>>]

Fail ==
  [ok |-> FALSE, start |-> 0, end |-> 0, caps |-> NoCaps]

\* s has the literal t at position pos
HasAt(s, t, pos) ==
  /\ pos + Len(t) - 1 <= Len(s)
  /\ \A j \in 1..Len(t) : s[pos + j - 1] = t[j]

\* the number of consecutive characters of s from pos on that are in S
RunLength(s, pos, S) ==
  LET stops == {q \in pos..Len(s) : s[q] \notin S}
  IN IF stops = {} THEN Len(s) - pos + 1
     ELSE (CHOOSE q \in stops : \A q2 \in stops : q <= q2) - pos

Min2(a, b) ==
  IF a <= b THEN a ELSE b

Max2(a, b) ==
  IF a >= b THEN a ELSE b

OpenCap(e, caps, pos) ==
  IF e.open > 0 THEN [caps EXCEPT ![e.open] = <<pos, pos>>] ELSE caps

CloseCap(e, caps, pos) ==
  IF e.close > 0 THEN [caps EXCEPT ![e.close] = <<caps[e.close][1], pos>>] ELSE caps

RECURSIVE MatchAt(_, _, _, _, _)
RECURSIVE RepEnds(_, _, _)
\* one more repetition after pos when r, the match of the repeated sequence
\* at pos, succeeded and is not empty
RepNext(sub, s, pos, r) ==
  IF r.ok /\ r.end > pos THEN RepEnds(sub, s, r.end) \o <<pos>> ELSE <<pos>>

\* the positions a greedy repetition of sub started at pos can end at, the
\* farthest first; every repetition is the first match of sub in priority
\* order (the repeated sequences of the patterns need no other)
RepEnds(sub, s, pos) ==
  RepNext(sub, s, pos, MatchAt(sub, s, 1, pos, NoCaps))

Offsets(ends, pos) ==
  [j \in 1..Len(ends) |-> ends[j] - pos]

\* The choices element e has at pos, in the matcher's priority order: the
\* numbers of characters it may consume.  A greedy quantifier tries the
\* longest run first, a lazy one the shortest; alternatives go left to right.
Choices(e, s, pos) ==
  IF e.k = "lit" THEN (IF HasAt(s, e.str, pos) THEN <<Len(e.str)>> ELSE <<>>)
  ELSE IF e.k = "end" THEN (IF pos = Len(s) + 1 THEN <<0>> ELSE <<>>)
  ELSE IF e.k = "rep" THEN Offsets(RepEnds(e.sub, s, pos), pos)
  ELSE IF e.k = "alt" THEN
    LET hit == SelectSeq([a \in 1..Len(e.alts) |-> IF HasAt(s, e.alts[a], pos) THEN Len(e.alts[a]) ELSE 0 - 1],
                         LAMBDA n : n >= 0)
    IN IF e.opt THEN Append(hit, 0) ELSE hit
  ELSE
    LET hi == Min2(e.max, RunLength(s, pos, e.set))
        n  == hi - e.min + 1
    IN IF n <= 0 THEN <<>>
       ELSE [j \in 1..n |-> IF e.lazy THEN e.min + j - 1 ELSE hi - j + 1]

\* element i of re (if any) can start at pos: a literal must be there.  A
\* choice after which the next literal is absent fails at once, so the
\* matcher drops it without descending.
CanStart(re, i, s, pos) ==
  IF i > Len(re) THEN TRUE
  ELSE IF re[i].k = "lit" THEN HasAt(s, re[i].str, pos)
  ELSE IF re[i].k = "end" THEN pos = Len(s) + 1
  ELSE IF re[i].k = "cls" /\ re[i].min >= 1 THEN pos <= Len(s) /\ s[pos] \in re[i].set
  ELSE TRUE

\* the result of the first choice, in priority order, whose result is a match
FirstOk(rs) ==
  LET ok == {x \in rs : x.r.ok}
  IN IF ok = {} THEN Fail
     ELSE (CHOOSE x \in ok : \A y \in ok : x.j <= y.j).r

\* element i of re takes one of the choices ch (numbers of characters, in
\* priority order) at pos and the rest of the pattern follows
MatchRest(re, s, i, pos, caps, ch) ==
  FirstOk({[j |-> j,
            r |-> MatchAt(re, s, i + 1, pos + ch[j],
                          CloseCap(re[i], OpenCap(re[i], caps, pos), pos + ch[j]))] :
             j \in 1..Len(ch)})

\* The backtracking matcher: elements from i on against s from pos on.  The
\* result is the first success in priority order: the first choice of
\* element i for which the rest of the pattern matches.
MatchAt(re, s, i, pos, caps) ==
  IF i > Len(re) THEN [ok |-> TRUE, start |-> 0, end |-> pos, caps |-> caps]
  ELSE MatchRest(re, s, i, pos, caps,
                 SelectSeq(Choices(re[i], s, pos), LAMBDA n : CanStart(re, i + 1, s, pos + n)))

\* the match with its start position recorded
StartedAt(r, st) ==
  IF r.ok THEN [r EXCEPT !.start = st] ELSE r

\* RegExp.prototype.exec with lastIndex = from - 1: the leftmost start at
\* or after from that matches
ExecFrom(re, s, from) ==
  FirstOk({[j |-> st, r |-> StartedAt(MatchAt(re, s, 1, st, NoCaps), st)] :
             st \in {q \in from..(Len(s) + 1) : CanStart(re, 1, s, q)}})

\* RegExp.prototype.exec without the g flag: the leftmost start that matches
Exec(re, s) ==
  ExecFrom(re, s, 1)

\* RegExp.prototype.test of a pattern that starts with ^
TestAtStart(re, s) ==
  MatchAt(re, s, 1, 1, NoCaps).ok

\* the text of capture group g of a successful match
Group(s, r, g) ==
  SubSeq(s, r.caps[g][1], r.caps[g][2] - 1)

\* the match array of String.prototype.match: element 1 is JavaScript's
\* index 0 (the whole match), element g+1 is capture group g
MatchArray(s, r, ngroups) ==
  [j \in 1..(ngroups + 1) |->
     IF j = 1 THEN SubSeq(s, r.start, r.end - 1) ELSE Group(s, r, j - 1)]

\* ------------------------------------------------------------------------
\* String helpers
\* ------------------------------------------------------------------------
\* String.prototype.split with a one-character separator
Split(s, sep) ==
  LET idx == {p \in 1..Len(s) : s[p] = sep}
      n == Cardinality(idx)
      Nth(k) == CHOOSE p \in idx : Cardinality({q \in idx : q < p}) = k - 1
  IN [k \in 1..(n + 1) |->
        SubSeq(s, IF k = 1 THEN 1 ELSE Nth(k - 1) + 1,
                  IF k = n + 1 THEN Len(s) ELSE Nth(k) - 1)]

\* String.prototype.includes
Includes(hay, needle) ==
  \E p \in 1..(Len(hay) + 1) : HasAt(hay, needle, p)

\* String.prototype.trim
Trim(s) ==
  LET ink == {p \in 1..Len(s) : s[p] \notin Space}
  IN IF ink = {} THEN <<>>
     ELSE SubSeq(s, CHOOSE p \in ink : \A q \in ink : p <= q,
                    CHOOSE p \in ink : \A q \in ink : p >= q)

DigitValue(c) ==
  CASE c = "0" -> 0 [] c = "1" -> 1 [] c = "2" -> 2 [] c = "3" -> 3 [] c = "4" -> 4
    [] c = "5" -> 5 [] c = "6" -> 6 [] c = "7" -> 7 [] c = "8" -> 8 [] c = "9" -> 9

\* the value parseInt gives a text without leading digits
NaN ==
  0 - 1

RECURSIVE ParseDigits(_, _, _)
ParseDigits(s, pos, acc) ==
  IF pos > Len(s) \/ s[pos] \notin Digit THEN acc
  ELSE ParseDigits(s, pos + 1, 10 * acc + DigitValue(s[pos]))

\* parseInt(m) || 1: a number of 0 is taken for a missing one
ParseIntOrOne(s) ==
  IF s = <<>> \/ s[1] \notin Digit THEN NaN
  ELSE IF ParseDigits(s, 1, 0) = 0 THEN 1 ELSE ParseDigits(s, 1, 0)

\* parseInt on the texts the recognizers capture: the decimal value of the
\* leading digits, NaN when there are none (no sign ever reaches it: the
\* captured groups are \d+)
ParseInt(s) ==
  IF s = <<>> \/ s[1] \notin Digit THEN NaN ELSE ParseDigits(s, 1, 0)

\* ------------------------------------------------------------------------
\* parseStackTrace: the ordered recognizers
\* ------------------------------------------------------------------------
\* /from\s+(.+?):(\d+):in\s+`(.+?)'/
FromPattern ==
  [re |-> <<Lit(<<"f", "r", "o", "m">>), Plus(Space), Cap(PlusLazy(Dot), 1), Lit(<<":">>), Cap(Plus(Digit), 2),
            Lit(<<":", "i", "n">>), Plus(Space), Lit(<<Backtick>>), Cap(PlusLazy(Dot), 3), Lit(<<"'">>)>>,
   source |-> <<"f", "r", "o", "m", "\\", "s", "+", "(", ".", "+", "?", ")", ":", "(", "\\", "d", "+", ")", ":", "i", "n", "\\", "s", "+", Backtick, "(", ".", "+", "?", ")", "'">>,
   ngroups |-> 3]

\* /(.+?):(\d+):in\s+`(.+?)'/
FramePattern ==
  [re |-> <<Cap(PlusLazy(Dot), 1), Lit(<<":">>), Cap(Plus(Digit), 2),
            Lit(<<":", "i", "n">>), Plus(Space), Lit(<<Backtick>>), Cap(PlusLazy(Dot), 3), Lit(<<"'">>)>>,
   source |-> <<"(", ".", "+", "?", ")", ":", "(", "\\", "d", "+", ")", ":", "i", "n", "\\", "s", "+", Backtick, "(", ".", "+", "?", ")", "'">>,
   ngroups |-> 3]

\* /(.+\.rb):(\d+)/
BarePattern ==
  [re |-> <<CapOpen(Plus(Dot), 1), CapClose(Lit(<<".", "r", "b">>), 1), Lit(<<":">>), Cap(Plus(Digit), 2)>>,
   source |-> <<"(", ".", "+", "\\", ".", "r", "b", ")", ":", "(", "\\", "d", "+", ")">>,
   ngroups |-> 2]

\* /at\s+(.+?)\s+\((.+?):(\d+):(\d+)\)/
CallSitePattern ==
  [re |-> <<Lit(<<"a", "t">>), Plus(Space), Cap(PlusLazy(Dot), 1), Plus(Space), Lit(<<"(">>),
            Cap(PlusLazy(Dot), 2), Lit(<<":">>), Cap(Plus(Digit), 3), Lit(<<":">>),
            Cap(Plus(Digit), 4), Lit(<<")">>)>>,
   source |-> <<"a", "t", "\\", "s", "+", "(", ".", "+", "?", ")", "\\", "s", "+", "\\", "(", "(", ".", "+", "?", ")", ":", "(", "\\", "d", "+", ")", ":", "(", "\\", "d", "+", ")", "\\", ")">>,
   ngroups |-> 4]

\* /File\s+"(.+?)",\s+line\s+(\d+),\s+in\s+(.+)/
QuotedPattern ==
  [re |-> <<Lit(<<"F", "i", "l", "e">>), Plus(Space), Lit(<<"\"">>), Cap(PlusLazy(Dot), 1), Lit(<<"\"", ",">>),
            Plus(Space), Lit(<<"l", "i", "n", "e">>), Plus(Space), Cap(Plus(Digit), 2), Lit(<<",">>),
            Plus(Space), Lit(<<"i", "n">>), Plus(Space), Cap(Plus(Dot), 3)>>,
   source |-> <<"F", "i", "l", "e", "\\", "s", "+", "\"", "(", ".", "+", "?", ")", "\"", ",", "\\", "s", "+", "l", "i", "n", "e", "\\", "s", "+", "(", "\\", "d", "+", ")", ",", "\\", "s", "+", "i", "n", "\\", "s", "+", "(", ".", "+", ")">>,
   ngroups |-> 3]

\* /at\s+(.+?)\((.+?):(\d+)\)/
JavaPattern ==
  [re |-> <<Lit(<<"a", "t">>), Plus(Space), Cap(PlusLazy(Dot), 1), Lit(<<"(">>),
            Cap(PlusLazy(Dot), 2), Lit(<<":">>), Cap(Plus(Digit), 3), Lit(<<")">>)>>,
   source |-> <<"a", "t", "\\", "s", "+", "(", ".", "+", "?", ")", "\\", "(", "(", ".", "+", "?", ")", ":", "(", "\\", "d", "+", ")", "\\", ")">>,
   ngroups |-> 3]

\* /(\w+)\s+(.+?):(\d+)/
GenericPattern ==
  [re |-> <<Cap(Plus(Word), 1), Plus(Space), Cap(PlusLazy(Dot), 2), Lit(<<":">>),
            Cap(Plus(Digit), 3)>>,
   source |-> <<"(", "\\", "w", "+", ")", "\\", "s", "+", "(", ".", "+", "?", ")", ":", "(", "\\", "d", "+", ")">>,
   ngroups |-> 3]

\* the patterns array, in the order the loop tries them
patterns ==
  <<FromPattern, FramePattern, BarePattern, CallSitePattern, QuotedPattern, JavaPattern, GenericPattern>>

\* the sentinel function name of the bare form
UnknownFunction ==
  <<"<", "u", "n", "k", "n", "o", "w", "n", ">">>

\* an optional number (the column of a frame): <<>> is undefined, <<c>> is c
Undefined ==
  <<>>

\* the text of filename after the end of the match r, all of it without a match
AfterMatch(filename, r) ==
  IF r.ok THEN SubSeq(filename, r.end, Len(filename)) ELSE filename

\* /^.*[\\\/]/ replaced by '': the text after the last path separator
BaseName(filename) ==
  AfterMatch(filename, MatchAt(<<Star(Dot), One({"\\", "/"})>>, filename, 1, 1, NoCaps))

\* filename = filename.replace(/^.*[\\\/]/, '') on the destructured frame
WithBaseName(raw) ==
  [raw EXCEPT !.filename = BaseName(raw.filename)]

\* The branch taken for a matched pattern and the destructuring of the match
\* array m (m[j+1] is JavaScript's match[j]); the result is the pushed frame.
ExtractFrame(pat, m) ==
  WithBaseName(
        IF Includes(pat.source, <<"f", "r", "o", "m", "\\", "s", "+">>) THEN
          [filename |-> m[2], function |-> m[4], line |-> ParseInt(m[3]), column |-> Undefined]
        ELSE IF Includes(pat.source, <<"i", "n", "\\", "s", "+", Backtick>>) THEN
          [filename |-> m[2], function |-> m[4], line |-> ParseInt(m[3]), column |-> Undefined]
        ELSE IF Includes(pat.source, <<"\\", ".", "r", "b">>) THEN
          [filename |-> m[2], function |-> UnknownFunction, line |-> ParseInt(m[3]), column |-> Undefined]
        ELSE IF Includes(pat.source, <<"F", "i", "l", "e", "\\", "s", "+">>) THEN
          [filename |-> m[2], function |-> m[4], line |-> ParseInt(m[3]), column |-> Undefined]
        ELSE IF Len(m) >= 4 THEN
          [filename |-> m[3], function |-> m[2], line |-> ParseInt(m[4]),
           column |-> IF Len(m) >= 5 THEN <<ParseInt(m[5])>> ELSE Undefined]
        ELSE
          [filename |-> m[3], function |-> m[2], line |-> NaN, column |-> Undefined])

NoFrame ==
  [matched |-> FALSE, pat |-> 0,
   frame |-> [filename |-> <<>>, function |-> <<>>, line |-> NaN, column |-> Undefined]]

\* one pattern of the loop: if (match) { ...; frames.push(...); break }, else
\* the loop goes on with the patterns after it
FrameOrNext(line, k, pat, r, next) ==
  IF r.ok
  THEN [matched |-> TRUE, pat |-> k,
        frame |-> ExtractFrame(pat, MatchArray(line, r, pat.ngroups))]
  ELSE next

\* pattern k of the patterns array against a line
ExecPattern(k, line) ==
  Exec(patterns[k].re, line)

RECURSIVE TryPatternsLastFirst(_, _)
\* the loop over patterns run from the last pattern to the first
TryPatternsLastFirst(line, k) ==
  IF k > Len(patterns) THEN NoFrame
  ELSE FrameOrNext(line, Len(patterns) + 1 - k, patterns[Len(patterns) + 1 - k],
                   ExecPattern(Len(patterns) + 1 - k, line),
                   TryPatternsLastFirst(line, k + 1))

RECURSIVE TryPatterns(_, _)
\* the inner loop over patterns for one line: the first pattern that matches
\* produces the frame and ends the loop (break)
TryPatterns(line, k) ==
  IF k > Len(patterns) THEN NoFrame
  ELSE FrameOrNext(line, k, patterns[k], ExecPattern(k, line), TryPatterns(line, k + 1))

\* ------------------------------------------------------------------------
\* Context extraction: getContextLines and findContainingFunction
\* (line indexes are 0-based as in the code; lines[i] of the code is
\* lines[i + 1] here)
\* ------------------------------------------------------------------------
ContextOf(i, targetLine) ==
  IF i < targetLine THEN "before" ELSE IF i = targetLine THEN "target" ELSE "after"

\* getContextLines with the end of the window one line short
getContextLinesShort(lines, targetLine, contextSize) ==
  LET start == Max2(0, targetLine - contextSize)
      end == Min2(Len(lines), targetLine + contextSize)
  IN IF end <= start THEN <<>>
     ELSE [j \in 1..(end - start) |->
             [lineNumber |-> start + j,
              content |-> lines[start + j],
              context |-> ContextOf(start + j - 1, targetLine)]]

getContextLines(lines, targetLine, contextSize) ==
  LET start == Max2(0, targetLine - contextSize)
      end == Min2(Len(lines), targetLine + contextSize + 1)
  IN IF end <= start THEN <<>>
     ELSE [j \in 1..(end - start) |->
             [lineNumber |-> start + j,
              content |-> lines[start + j],
              context |-> ContextOf(start + j - 1, targetLine)]]

\* the declaration patterns of findContainingFunction, in list order
DeclPatterns ==
  << \* /def\s+(?:self\.)?(\w+[!?]?)/
     <<Lit(<<"d", "e", "f">>), Plus(Space), Alt(<<<<"s", "e", "l", "f", ".">>>>, TRUE),
       CapOpen(Plus(Word), 1), CapClose(Opt({"!", "?"}), 1)>>,
     \* /def\s+self\.(\w+[!?]?)/
     <<Lit(<<"d", "e", "f">>), Plus(Space), Lit(<<"s", "e", "l", "f", ".">>),
       CapOpen(Plus(Word), 1), CapClose(Opt({"!", "?"}), 1)>>,
     \* /(\w+)\s*=\s*(?:lambda|proc)\s*{/
     <<Cap(Plus(Word), 1), Star(Space), Lit(<<"=">>), Star(Space),
       Alt(<<<<"l", "a", "m", "b", "d", "a">>, <<"p", "r", "o", "c">>>>, FALSE), Star(Space), Lit(<<"{">>)>>,
     \* /(\w+)\s*=\s*->\s*\(/
     <<Cap(Plus(Word), 1), Star(Space), Lit(<<"=">>), Star(Space), Lit(<<"-", ">">>),
       Star(Space), Lit(<<"(">>)>>,
     \* /function\s+(\w+)/
     <<Lit(<<"f", "u", "n", "c", "t", "i", "o", "n">>), Plus(Space), Cap(Plus(Word), 1)>>,
     \* /(\w+)\s*:\s*function/
     <<Cap(Plus(Word), 1), Star(Space), Lit(<<":">>), Star(Space), Lit(<<"f", "u", "n", "c", "t", "i", "o", "n">>)>>,
     \* /(\w+)\s*\([^)]*\)\s*{/
     <<Cap(Plus(Word), 1), Star(Space), Lit(<<"(">>), Star(NotRParen), Lit(<<")">>),
       Star(Space), Lit(<<"{">>)>>,
     \* /const\s+(\w+)\s*=\s*\([^)]*\)\s*=>/
     <<Lit(<<"c", "o", "n", "s", "t">>), Plus(Space), Cap(Plus(Word), 1), Star(Space), Lit(<<"=">>), Star(Space),
       Lit(<<"(">>), Star(NotRParen), Lit(<<")">>), Star(Space), Lit(<<"=", ">">>)>>,
     \* /(\w+)\s*=\s*\([^)]*\)\s*=>/
     <<Cap(Plus(Word), 1), Star(Space), Lit(<<"=">>), Star(Space),
       Lit(<<"(">>), Star(NotRParen), Lit(<<")">>), Star(Space), Lit(<<"=", ">">>)>>,
     \* /def\s+(\w+)/
     <<Lit(<<"d", "e", "f">>), Plus(Space), Cap(Plus(Word), 1)>>,
     \* /(?:public|private|protected)?\s*(?:static)?\s*\w+\s+(\w+)\s*\(/
     <<Alt(<<<<"p", "u", "b", "l", "i", "c">>, <<"p", "r", "i", "v", "a", "t", "e">>, <<"p", "r", "o", "t", "e", "c", "t", "e", "d">>>>, TRUE), Star(Space),
       Alt(<<<<"s", "t", "a", "t", "i", "c">>>>, TRUE), Star(Space), Plus(Word), Plus(Space),
       Cap(Plus(Word), 1), Star(Space), Lit(<<"(">>)>> >>

\* an optional name: <<>> is null, <<name>> is the name
Null ==
  <<>>

\* one pattern of the inner loop: if (match) return match[1], else the loop
\* goes on
NameOrNext(line, r, next) ==
  IF r.ok THEN <<Group(line, r, 1)>> ELSE next

RECURSIVE DeclFrom(_, _)
\* the inner loop of findContainingFunction on one trimmed line: match[1] of
\* the first pattern that matches, null when none does
DeclFrom(line, k) ==
  IF k > Len(DeclPatterns) THEN Null
  ELSE NameOrNext(line, Exec(DeclPatterns[k], line), DeclFrom(line, k + 1))

\* what the lines before give, else the name found on the line
EarlierOrFound(d, earlier) ==
  IF earlier # Null THEN earlier ELSE d

\* the name found on a line, else what the lines before it give
FoundOrEarlier(d, earlier) ==
  IF d # Null THEN d ELSE earlier

RECURSIVE ScanBackFrom(_, _)
ScanBackFrom(lines, i) ==
  IF i < 0 THEN Null
  ELSE FoundOrEarlier(DeclFrom(Trim(lines[i + 1]), 1), ScanBackFrom(lines, i - 1))

\* the backward scan started on the line above line i
ScanBackAbove(lines, i) ==
  ScanBackFrom(lines, i - 1)

RECURSIVE ScanBack(_, _)
\* the loop of findContainingFunction from line i down to line 0: the name of
\* the first line that matches a declaration pattern, null when none does
ScanBack(lines, i) ==
  IF i < 0 THEN Null
  ELSE FoundOrEarlier(DeclFrom(Trim(lines[i + 1]), 1), ScanBack(lines, i - 1))

findContainingFunction(lines, targetLine) ==
  ScanBack(lines, targetLine)

\* ------------------------------------------------------------------------
\* Inputs: trace lines in the seven recognized formats, and files
\* ------------------------------------------------------------------------
\* "from <path>:<line>:in `<function>'"
FromLine(P, L, F) ==
  <<"f", "r", "o", "m", " ">> \o P \o <<":">> \o L \o <<":", "i", "n", " ", Backtick>> \o F \o <<"'">>

\* "<path>:<line>:in `<function>'"
FrameLine(P, L, F) ==
  P \o <<":">> \o L \o <<":", "i", "n", " ", Backtick>> \o F \o <<"'">>

\* "<path>.rb:<line>"
BareLine(P, L) ==
  P \o <<":">> \o L

\* "at <function> (<path>:<line>:<column>)"
CallSiteLine(F, P, L, C) ==
  <<"a", "t", " ">> \o F \o <<" ", "(">> \o P \o <<":">> \o L \o <<":">> \o C \o <<")">>

\* "File "<path>", line <line>, in <function>"
QuotedLine(P, L, F) ==
  <<"F", "i", "l", "e", " ", "\"">> \o P \o <<"\"", ",", " ", "l", "i", "n", "e", " ">> \o L \o <<",", " ", "i", "n", " ">> \o F

\* "at <function>(<path>:<line>)"
JavaLine(F, P, L) ==
  <<"a", "t", " ">> \o F \o <<"(">> \o P \o <<":">> \o L \o <<")">>

\* "<function> <path>:<line>"
GenericLine(F, P, L) ==
  F \o <<" ">> \o P \o <<":">> \o L

RbPaths ==
  {<<"a", "/", "x", ".", "r", "b">>, <<"x", ".", "r", "b">>}

Paths ==
  RbPaths \cup {<<"b", "\\", "y", ".", "j", "s">>, <<"y", ".", "j", "s">>}

LineNums ==
  {<<"2">>, <<"1", "2">>, <<"0">>, <<"0", "7">>}

Funcs ==
  {<<"f">>, <<"g", "_", "1">>}

Cols ==
  {<<"4">>}

FromLines ==
  {FromLine(P, L, F) : P \in Paths, L \in LineNums, F \in Funcs}

FrameLines ==
  {FrameLine(P, L, F) : P \in Paths, L \in LineNums, F \in Funcs}

BareLines ==
  {BareLine(P, L) : P \in RbPaths, L \in LineNums}

CallSiteLines ==
  {CallSiteLine(F, P, L, C) : F \in Funcs, P \in Paths, L \in LineNums, C \in Cols}

QuotedLines ==
  {QuotedLine(P, L, F) : P \in Paths, L \in LineNums, F \in Funcs}

JavaLines ==
  {JavaLine(F, P, L) : F \in Funcs, P \in Paths, L \in LineNums}

GenericLines ==
  {GenericLine(F, P, L) : F \in Funcs, P \in Paths, L \in LineNums}

\* a line number written with a minus sign
SignedNums ==
  {<<"-", "5">>}

\* the seven formats with a line number of 0 and with a signed line number
ZeroAndSignedLines(L) ==
  {FromLine(<<"a", "/", "x", ".", "r", "b">>, L, <<"f">>), FrameLine(<<"a", "/", "x", ".", "r", "b">>, L, <<"f">>), BareLine(<<"x", ".", "r", "b">>, L),
   CallSiteLine(<<"f">>, <<"y", ".", "j", "s">>, L, <<"4">>), QuotedLine(<<"y", ".", "j", "s">>, L, <<"f">>),
   JavaLine(<<"f">>, <<"y", ".", "j", "s">>, L), GenericLine(<<"f">>, <<"y", ".", "j", "s">>, L)}

SignedLines ==
  UNION {ZeroAndSignedLines(L) : L \in SignedNums}

\* lines no recognizer matches
JunkLines ==
  {<<"E", ":", " ", "b", "o", "o", "m">>, <<>>}

FormatLines ==
  FromLines \cup FrameLines \cup BareLines \cup CallSiteLines \cup QuotedLines
    \cup JavaLines \cup GenericLines

\* the lines of the traces with several lines
MixLines ==
  {FromLine(<<"a", "/", "x", ".", "r", "b">>, <<"2">>, <<"f">>), CallSiteLine(<<"f">>, <<"y", ".", "j", "s">>, <<"1", "2">>, <<"4">>),
   BareLine(<<"x", ".", "r", "b">>, <<"1", "2">>), BareLine(<<"x", ".", "r", "b">>, <<"0">>),
   FromLine(<<"a", "/", "x", ".", "r", "b">>, <<"-", "5">>, <<"f">>)} \cup JunkLines

\* the one-line trace of the README's example report
ExampleTrace ==
  <<"f", "r", "o", "m", " ", "a", "p", "p", "/", "s", "e", "r", "v", "i", "c", "e", "s", "/", "u", "s", "e", "r", "_", "s", "e", "r", "v", "i", "c", "e", ".", "r", "b", ":", "2", "5", ":", "i", "n", " ", Backtick, "g", "e", "t", "_", "u", "s", "e", "r", "_", "d", "a", "t", "a", "'">>

\* the lines of the traces analyzed against varying file systems
AnalysisLines ==
  {FromLine(<<"a", "/", "x", ".", "r", "b">>, L, <<"f">>) : L \in {<<"2">>, <<"1", "2">>, <<"0">>}}
    \cup {CallSiteLine(<<"f">>, <<"y", ".", "j", "s">>, <<"1", "2">>, <<"4">>), <<"E", ":", " ", "b", "o", "o", "m">>}

\* the lines of the traces with more frames than are analyzed: seven frames
\* and a line that gives none; the sixth frame is the only one in z.rb
LongLines ==
  <<FromLine(<<"a", "/", "x", ".", "r", "b">>, <<"2">>, <<"f">>), <<"E", ":", " ", "b", "o", "o", "m">>, CallSiteLine(<<"f">>, <<"y", ".", "j", "s">>, <<"1", "2">>, <<"4">>),
    FromLine(<<"a", "/", "x", ".", "r", "b">>, <<"1", "2">>, <<"f">>), BareLine(<<"x", ".", "r", "b">>, <<"2">>), FromLine(<<"a", "/", "x", ".", "r", "b">>, <<"2">>, <<"g", "_", "1">>),
    BareLine(<<"z", ".", "r", "b">>, <<"2">>), FromLine(<<"a", "/", "x", ".", "r", "b">>, <<"0">>, <<"f">>)>>

\* every line of the input traces
InputLines ==
  FormatLines \cup SignedLines \cup MixLines \cup AnalysisLines \cup {ExampleTrace}
    \cup {LongLines[i] : i \in 1..Len(LongLines)}

\* the result of the loop over patterns for the lines of the inputs, computed
\* once
ParsedInputLine ==
  [l \in InputLines |-> TryPatterns(l, 1)] @@ <<>>

\* the body of the loop over the lines, for one line
ParseLine(line) ==
  IF line \in InputLines THEN ParsedInputLine[line] ELSE TryPatterns(line, 1)

MaxTraceLines ==
  3

MaxAnalysisLines ==
  2

RECURSIVE SeqsUpTo(_, _)
\* the non-empty sequences over S of length at most n
SeqsUpTo(S, n) ==
  IF n = 0 THEN {}
  ELSE LET shorter == SeqsUpTo(S, n - 1)
       IN {<<x>> : x \in S} \cup shorter \cup {Append(t, x) : t \in shorter, x \in S}

RECURSIVE JoinLines(_)
\* the text whose lines are ls: the lines joined by "\n"
JoinLines(ls) ==
  IF Len(ls) = 1 THEN ls[1]
  ELSE ls[1] \o <<"\n">> \o JoinLines(Tail(ls))

ParseTraces ==
  FormatLines \cup SignedLines \cup {JoinLines(ls) : ls \in SeqsUpTo(MixLines, MaxTraceLines)}

AnalysisTraces ==
  {JoinLines(ls) : ls \in SeqsUpTo(AnalysisLines, MaxAnalysisLines)}

\* traces of four to seven frames
LongTraces ==
  {JoinLines(SubSeq(LongLines, 1, n)) : n \in 5..Len(LongLines)}

\* what fs.readFile finds at a path: no file, a file that cannot be read, or a
\* file, named by its content
Absent ==
  "absent"

Unreadable ==
  "unreadable"

\* file contents
FileContent ==
  [short |-> <<"d", "e", "f", " ", "f", "\n", " ", " ", "g", "(", "1", ")">>,
   long |-> <<"#", " ", "a", "\n", "\n", "d", "e", "f", " ", "f", "\n", " ", " ", "g", "(", "1", ")", "\n", "e", "n", "d", "\n", "\n", "d", "e", "f", " ", "h", "(", "x", ")", "\n", " ", " ", "y", " ", "=", " ", "1", "\n", " ", " ", "k", "(", "y", ")", "\n", " ", " ", "z", " ", "=", " ", "2", "\n", " ", " ", "y", "\n", "e", "n", "d", "\n">>,
   service |-> <<"#", " ", "u", "s", "e", "r", " ", "s", "e", "r", "v", "i", "c", "e", "\n", "\n", "c", "l", "a", "s", "s", " ", "U", "s", "e", "r", "S", "e", "r", "v", "i", "c", "e", "\n", "\n", "\n", "\n", "\n", "\n", "\n", "\n", "\n", "\n", "\n", "\n", "\n", "\n", "\n", "\n", "\n", "\n", "\n", "\n", "d", "e", "f", " ", "g", "e", "t", "_", "u", "s", "e", "r", "_", "d", "a", "t", "a", "(", "i", "d", ")", "\n", " ", " ", "u", " ", "=", " ", "f", "i", "n", "d", "(", "i", "d", ")", "\n", " ", " ", "u", ".", "n", "a", "m", "e", "\n", "e", "n", "d", "\n">>]

FileIds ==
  DOMAIN FileContent

\* the candidate paths for x.rb and for user_service.rb, and the example's file
XPaths ==
  {<<"x", ".", "r", "b">>, <<"s", "r", "c", "/", "x", ".", "r", "b">>, <<"a", "p", "p", "/", "x", ".", "r", "b">>}

UPaths ==
  {<<"u", "s", "e", "r", "_", "s", "e", "r", "v", "i", "c", "e", ".", "r", "b">>, <<"s", "r", "c", "/", "u", "s", "e", "r", "_", "s", "e", "r", "v", "i", "c", "e", ".", "r", "b">>, <<"a", "p", "p", "/", "u", "s", "e", "r", "_", "s", "e", "r", "v", "i", "c", "e", ".", "r", "b">>}

ExamplePath ==
  <<"a", "p", "p", "/", "s", "e", "r", "v", "i", "c", "e", "s", "/", "u", "s", "e", "r", "_", "s", "e", "r", "v", "i", "c", "e", ".", "r", "b">>

FsPaths ==
  XPaths \cup UPaths \cup {ExamplePath}

EmptyFs ==
  [p \in FsPaths |-> Absent]

\* file systems that vary the candidates of x.rb
XFileSystems ==
  {[p \in FsPaths |-> IF p \in XPaths THEN f[p] ELSE Absent] :
     f \in [XPaths -> {Absent, Unreadable, "short", "long"}]}

\* file systems that hold the example's file and vary its candidates
ExampleFileSystems ==
  {[p \in FsPaths |-> IF p \in UPaths THEN f[p]
                      ELSE IF p = ExamplePath THEN "service" ELSE Absent] :
     f \in [UPaths -> {Absent, "service"}]}

\* the file of the sixth frame of the long traces
ZPath ==
  <<"z", ".", "r", "b">>

\* file systems that vary the candidates of x.rb and hold z.rb
LongFileSystems ==
  {[p \in FsPaths \cup {ZPath} |-> IF p = ZPath THEN "short" ELSE f[p]] : f \in XFileSystems}

\* ------------------------------------------------------------------------
\* State
\* ------------------------------------------------------------------------
VARIABLES
  stackTrace,  \* the text given to analyzeStackTrace
  fs,          \* the files under the codebase root: path -> Absent, Unreadable or a file
  pc,          \* where analyzeStackTrace is: "parse", "analyze" or "done"
  lineNo,      \* parseStackTrace: the number of the next line of the loop
  frames,      \* parseStackTrace: the frames pushed so far
  origin,      \* for each frame, the line and the pattern that produced it
  listing,     \* analyzeStackTrace: the "Parsed Stack Trace" entries
  frameNo,     \* analyzeStackTrace: the number of the next frame of the loop
  blocks,      \* analyzeStackTrace: the code-context blocks appended so far
  reads,       \* the paths given to fs.readFile, in call order
  outcome,     \* what analyzeStackTrace returned: "none" until it returns
  ctx,         \* a call of getContextLines and findContainingFunction on its own
  scan,        \* the analyzer's gitignorePatterns field and the calls of analyzeCodebase
  sentry,      \* a SentryService and a call of one of its operations
  ex,          \* a content and the results of the calls of analyzeFile on it
  inv,         \* a call of IssueInvestigator.investigate
  tool         \* a tool call handled by the server

vars ==
  <<stackTrace, fs, pc, lineNo, frames, origin, listing, frameNo, blocks, reads, outcome, ctx, scan, sentry, ex, inv, tool>>

\* const lines = stackTrace.split('\n')
TraceLines ==
  Split(stackTrace, "\n")

\* the frames analyzed: frames.slice(0, 5)
FrameCap ==
  5

\* the context size analyzeFileForStackFrame asks for
ContextSize ==
  3

IdleCtx ==
  [pc |-> "idle", lines |-> <<>>, target |-> 0, radius |-> 0, window |-> <<>>, function |-> Null]

\* the variables of analyzeStackTrace
traceVars ==
  <<stackTrace, fs, pc, lineNo, frames, origin, listing, frameNo, blocks, reads, outcome>>

\* no call of analyzeStackTrace
IdleTrace ==
  /\ stackTrace = <<>>
  /\ fs = EmptyFs
  /\ pc = "done"
  /\ lineNo = 1
  /\ frames = <<>>
  /\ origin = <<>>
  /\ listing = <<>>
  /\ frameNo = 1
  /\ blocks = <<>>
  /\ reads = <<>>
  /\ outcome = "none"

IdleScan ==
  [gitignorePatterns |-> "null", calls |-> <<>>]

IdleSentry ==
  [pc |-> "idle", op |-> "none"]

IdleEx ==
  [content |-> <<>>, results |-> <<>>]

\* the variables of the investigator and of the server
serverVars ==
  <<inv, tool>>

\* no investigation, no tool call
IdleServer ==
  /\ inv = [pc |-> "idle"]
  /\ tool = [pc |-> "idle"]

Init ==
  /\ \/ stackTrace \in ParseTraces /\ fs = EmptyFs
     \/ stackTrace \in AnalysisTraces /\ fs \in XFileSystems
     \/ stackTrace = ExampleTrace /\ fs \in ExampleFileSystems
     \/ stackTrace \in LongTraces /\ fs \in LongFileSystems
  /\ pc = "parse"
  /\ lineNo = 1
  /\ frames = <<>>
  /\ origin = <<>>
  /\ listing = <<>>
  /\ frameNo = 1
  /\ blocks = <<>>
  /\ reads = <<>>
  /\ outcome = "none"
  /\ ctx = IdleCtx
  /\ scan = IdleScan
  /\ sentry = IdleSentry
  /\ ex = IdleEx
  /\ IdleServer

\* ------------------------------------------------------------------------
\* parseStackTrace
\* ------------------------------------------------------------------------
\* the frame put in front of the list
PushFrameFront(fr, frame) ==
  <<frame>> \o fr

\* frames.push(frame)
PushFrame(fr, frame) ==
  Append(fr, frame)

\* one iteration of the loop over the lines
ParseStep ==
  /\ pc = "parse"
  /\ lineNo <= Len(TraceLines)
  /\ \E p \in {ParseLine(TraceLines[lineNo])} :
        IF p.matched
        THEN /\ frames' = PushFrame(frames, p.frame)
             /\ origin' = Append(origin, [line |-> lineNo, pat |-> p.pat])
        ELSE UNCHANGED <<frames, origin>>
  /\ lineNo' = lineNo + 1
  /\ UNCHANGED <<stackTrace, fs, pc, listing, frameNo, blocks, reads, outcome, ctx, scan, sentry, ex, serverVars>>

\* ------------------------------------------------------------------------
\* analyzeStackTrace
\* ------------------------------------------------------------------------
Anonymous ==
  <<"<", "a", "n", "o", "n", "y", "m", "o", "u", "s", ">">>

\* the "Parsed Stack Trace" list: every frame, frame.function || '<anonymous>'
ListFrames(fr) ==
  [i \in 1..Len(fr) |->
     [function |-> IF fr[i].function = <<>> THEN Anonymous ELSE fr[i].function,
      filename |-> fr[i].filename,
      line |-> fr[i].line]]

\* analyzeStackTrace without the return for an empty list of frames
CouldNotParseNoReturn ==
  /\ pc = "parse"
  /\ lineNo > Len(TraceLines)
  /\ Len(frames) = 0
  /\ listing' = ListFrames(frames)
  /\ pc' = "analyze"
  /\ frameNo' = 1
  /\ UNCHANGED <<stackTrace, fs, lineNo, frames, origin, blocks, reads, outcome, ctx, scan, sentry, ex, serverVars>>

\* frames.length === 0: the "Could not parse stack trace" return
CouldNotParse ==
  /\ pc = "parse"
  /\ lineNo > Len(TraceLines)
  /\ Len(frames) = 0
  /\ pc' = "done"
  /\ outcome' = "could_not_parse"
  /\ UNCHANGED <<stackTrace, fs, lineNo, frames, origin, listing, frameNo, blocks, reads, ctx, scan, sentry, ex, serverVars>>

BeginAnalysis ==
  /\ pc = "parse"
  /\ lineNo > Len(TraceLines)
  /\ Len(frames) # 0
  /\ listing' = ListFrames(frames)
  /\ pc' = "analyze"
  /\ frameNo' = 1
  /\ UNCHANGED <<stackTrace, fs, lineNo, frames, origin, blocks, reads, outcome, ctx, scan, sentry, ex, serverVars>>

\* path.join(codebasePath, ...) for the three candidates, relative to the root
possiblePaths(frame) ==
  <<frame.filename, <<"s", "r", "c", "/">> \o frame.filename, <<"a", "p", "p", "/">> \o frame.filename>>

\* fs.readFile: Absent and Unreadable make it throw
ReadFile(p) ==
  IF p \in DOMAIN fs THEN fs[p] ELSE Absent

NotFoundBlock(frame) ==
  [kind |-> "notfound", filename |-> frame.filename, line |-> frame.line, path |-> <<>>,
   lineCount |-> 0, window |-> <<>>, function |-> Null]

\* a candidate that was read: the context block when the file has the frame's
\* line (targetLine >= 0 && targetLine < lines.length), else the loop goes on
ContextOrNext(frame, filePath, lines, tried, next) ==
  LET targetLine == frame.line - 1
  IN IF targetLine >= 0 /\ targetLine < Len(lines)
     THEN [block |-> [kind |-> "context", filename |-> frame.filename,
                      line |-> frame.line, path |-> filePath,
                      lineCount |-> Len(lines),
                      window |-> getContextLines(lines, targetLine, ContextSize),
                      function |-> findContainingFunction(lines, targetLine)],
           reads |-> Append(tried, filePath)]
     ELSE next

RECURSIVE TryPaths(_, _, _)
\* the loop over possiblePaths, from candidate k on; tried are the paths read
\* before.  A throwing read continues with the next candidate; so does a file
\* that does not have the frame's line.
TryPaths(frame, k, tried) ==
  IF k > Len(possiblePaths(frame))
  THEN [block |-> NotFoundBlock(frame), reads |-> tried]
  ELSE LET filePath == possiblePaths(frame)[k]
           f == ReadFile(filePath)
       IN IF f \in {Absent, Unreadable}
          THEN TryPaths(frame, k + 1, Append(tried, filePath))
          ELSE ContextOrNext(frame, filePath, Split(FileContent[f], "\n"), tried,
                             TryPaths(frame, k + 1, Append(tried, filePath)))

analyzeFileForStackFrame(frame) ==
  TryPaths(frame, 1, <<>>)

\* one iteration of a loop over all the frames
AnalyzeFrameUncapped ==
  /\ pc = "analyze"
  /\ frameNo <= Len(frames)
  /\ \E a \in {analyzeFileForStackFrame(frames[frameNo])} :
        /\ blocks' = Append(blocks, a.block)
        /\ reads' = reads \o a.reads
  /\ frameNo' = frameNo + 1
  /\ UNCHANGED <<stackTrace, fs, pc, lineNo, frames, origin, listing, outcome, ctx, scan, sentry, ex, serverVars>>

\* one iteration of the loop over frames.slice(0, 5)
AnalyzeFrame ==
  /\ pc = "analyze"
  /\ frameNo <= Min2(Len(frames), FrameCap)
  /\ \E a \in {analyzeFileForStackFrame(frames[frameNo])} :
        /\ blocks' = Append(blocks, a.block)
        /\ reads' = reads \o a.reads
  /\ frameNo' = frameNo + 1
  /\ UNCHANGED <<stackTrace, fs, pc, lineNo, frames, origin, listing, outcome, ctx, scan, sentry, ex, serverVars>>

\* return analysis
ReturnAnalysis ==
  /\ pc = "analyze"
  /\ frameNo > Min2(Len(frames), FrameCap)
  /\ pc' = "done"
  /\ outcome' = "analysis"
  /\ UNCHANGED <<stackTrace, fs, lineNo, frames, origin, listing, frameNo, blocks, reads, ctx, scan, sentry, ex, serverVars>>

Next ==
  \/ ParseStep
  \/ CouldNotParse
  \/ BeginAnalysis
  \/ AnalyzeFrame
  \/ ReturnAnalysis

Spec ==
  Init /\ [][Next]_vars

\* ------------------------------------------------------------------------
\* getContextLines and findContainingFunction on their own: a file given
\* as its lines, a 0-based target line inside it and a context size
\* ------------------------------------------------------------------------
SourceLines ==
  {<<"d", "e", "f", " ", "f">>, <<" ", " ", "y", " ", "=", " ", "1">>, <<"f", "u", "n", "c", "t", "i", "o", "n", " ", "h", "(", ")", " ", "{">>, <<" ", " ", "r", "e", "t", "u", "r", "n", " ", "k", "(", "1", ")">>, <<"d", "e", "f", " ", "s", "e", "l", "f", ".", "g", "(", "x", ")">>}

MaxFileLines ==
  3

MaxLineCount ==
  9

MaxRadius ==
  4

\* a file of n lines none of which is a declaration
PlainFile(n) ==
  [i \in 1..n |-> <<" ", " ", "y", " ", "=", " ", "1">>]

SourceFiles ==
  SeqsUpTo(SourceLines, MaxFileLines) \cup {PlainFile(n) : n \in 1..MaxLineCount}

InitContext ==
  /\ stackTrace = <<>>
  /\ fs = EmptyFs
  /\ pc = "done"
  /\ lineNo = 1
  /\ frames = <<>>
  /\ origin = <<>>
  /\ listing = <<>>
  /\ frameNo = 1
  /\ blocks = <<>>
  /\ reads = <<>>
  /\ outcome = "none"
  /\ scan = IdleScan
  /\ sentry = IdleSentry
  /\ ex = IdleEx
  /\ IdleServer
  /\ \E ls \in SourceFiles : \E t \in 0..(Len(ls) - 1) : \E r \in 0..MaxRadius :
       ctx = [pc |-> "ready", lines |-> ls, target |-> t, radius |-> r,
              window |-> <<>>, function |-> Null]

\* const contextLines = this.getContextLines(lines, targetLine, contextSize)
GetContext ==
  /\ ctx.pc = "ready"
  /\ ctx' = [ctx EXCEPT !.pc = "windowed",
                        !.window = getContextLines(ctx.lines, ctx.target, ctx.radius)]
  /\ UNCHANGED <<stackTrace, fs, pc, lineNo, frames, origin, listing, frameNo, blocks, reads, outcome,
                 scan, sentry, ex, serverVars>>

\* const functionName = this.findContainingFunction(lines, targetLine)
FindFunction ==
  /\ ctx.pc = "windowed"
  /\ ctx' = [ctx EXCEPT !.pc = "done",
                        !.function = findContainingFunction(ctx.lines, ctx.target)]
  /\ UNCHANGED <<stackTrace, fs, pc, lineNo, frames, origin, listing, frameNo, blocks, reads, outcome,
                 scan, sentry, ex, serverVars>>

NextContext ==
  \/ GetContext
  \/ FindFunction

SpecContext ==
  InitContext /\ [][NextContext]_vars

\* ------------------------------------------------------------------------
\* analyzeFile: extractFunctions and extractImports
\* ------------------------------------------------------------------------
\* ['"]
Quote ==
  {"'", "\""}

\* [^'"]
NotQuote ==
  Char \ Quote

\* [^\s]
NotSpace ==
  Char \ Space

\* [^\s;]
NotSpaceSemi ==
  Char \ (Space \cup {";"})

\* the patterns of extractFunctions, in list order; each is also a pattern of
\* findContainingFunction
FunctionPatterns ==
  << DeclPatterns[1],   \* /def\s+(?:self\.)?(\w+[!?]?)/g
     DeclPatterns[3],   \* /(\w+)\s*=\s*(?:lambda|proc)\s*{/g
     DeclPatterns[4],   \* /(\w+)\s*=\s*->\s*\(/g
     DeclPatterns[5],   \* /function\s+(\w+)/g
     DeclPatterns[6],   \* /(\w+)\s*:\s*function/g
     DeclPatterns[8],   \* /const\s+(\w+)\s*=\s*\([^)]*\)\s*=>/g
     DeclPatterns[10],  \* /def\s+(\w+)/g
     DeclPatterns[11]   \* /(?:public|private|protected)?\s*(?:static)?\s*\w+\s+(\w+)\s*\(/g
  >>

\* keyword\s+['"]([^'"]+)['"]
QuotedArgument(keyword) ==
  <<Lit(keyword), Plus(Space), One(Quote), Cap(Plus(NotQuote), 1), One(Quote)>>

\* keyword\s+([A-Z]\w*(?:::[A-Z]\w*)*)
ConstantArgument(keyword) ==
  <<Lit(keyword), Plus(Space), CapOpen(One(Upper), 1), Star(Word),
    CapClose(Rep(<<Lit(<<":", ":">>), One(Upper), Star(Word)>>), 1)>>

\* the patterns of extractImports, in list order
ImportPatterns ==
  << \* /require\s+['"]([^'"]+)['"]/g
     QuotedArgument(<<"r", "e", "q", "u", "i", "r", "e">>),
     \* /require_relative\s+['"]([^'"]+)['"]/g
     QuotedArgument(<<"r", "e", "q", "u", "i", "r", "e", "_", "r", "e", "l", "a", "t", "i", "v", "e">>),
     \* /load\s+['"]([^'"]+)['"]/g
     QuotedArgument(<<"l", "o", "a", "d">>),
     \* /include\s+([A-Z]\w*(?:::[A-Z]\w*)*)/g
     ConstantArgument(<<"i", "n", "c", "l", "u", "d", "e">>),
     \* /extend\s+([A-Z]\w*(?:::[A-Z]\w*)*)/g
     ConstantArgument(<<"e", "x", "t", "e", "n", "d">>),
     \* /gem\s+['"]([^'"]+)['"]/g
     QuotedArgument(<<"g", "e", "m">>),
     \* /import\s+.*?\s+from\s+['"]([^'"]+)['"]/g
     <<Lit(<<"i", "m", "p", "o", "r", "t">>), Plus(Space), StarLazy(Dot), Plus(Space), Lit(<<"f", "r", "o", "m">>), Plus(Space),
       One(Quote), Cap(Plus(NotQuote), 1), One(Quote)>>,
     \* /import\s+['"]([^'"]+)['"]/g
     QuotedArgument(<<"i", "m", "p", "o", "r", "t">>),
     \* /require\s*\(\s*['"]([^'"]+)['"]\s*\)/g
     <<Lit(<<"r", "e", "q", "u", "i", "r", "e">>), Star(Space), Lit(<<"(">>), Star(Space), One(Quote),
       Cap(Plus(NotQuote), 1), One(Quote), Star(Space), Lit(<<")">>)>>,
     \* /from\s+([^\s]+)\s+import/g
     <<Lit(<<"f", "r", "o", "m">>), Plus(Space), Cap(Plus(NotSpace), 1), Plus(Space), Lit(<<"i", "m", "p", "o", "r", "t">>)>>,
     \* /import\s+([^\s;]+)/g
     <<Lit(<<"i", "m", "p", "o", "r", "t">>), Plus(Space), Cap(Plus(NotSpaceSemi), 1)>> >>

RECURSIVE AllMatches(_, _, _)
\* one turn of while ((match = pattern.exec(trimmed)) !== null): push
\* match[1] and go on from lastIndex, the end of the match
PushAndGoOn(re, s, r) ==
  IF r.ok THEN <<Group(s, r, 1)>> \o AllMatches(re, s, r.end) ELSE <<>>

\* the names one global pattern pushes for a line, from index from on
AllMatches(re, s, from) ==
  PushAndGoOn(re, s, ExecFrom(re, s, from))

RECURSIVE PushedByLine(_, _, _)
\* the loop over the patterns for one trimmed line, from pattern k on; every
\* pattern is a new object whose lastIndex is 0
PushedByLine(pats, trimmed, k) ==
  IF k > Len(pats) THEN <<>>
  ELSE AllMatches(pats[k], trimmed, 1) \o PushedByLine(pats, trimmed, k + 1)

\* the lines of the analyzed contents
ContentLines ==
  {<<"d", "e", "f", " ", "f">>, <<" ", " ", "d", "e", "f", " ", "f", "(", "x", ")">>, <<"d", "e", "f", " ", "s", "e", "l", "f", ".", "g", "?", "(", "x", ")", ";", " ", "d", "e", "f", " ", "f">>, <<"f", "u", "n", "c", "t", "i", "o", "n", " ", "h", "(", ")", " ", "{", " ", "k", " ", "=", " ", "-", ">", " ", "(", "x", ")">>,
   <<"c", "o", "n", "s", "t", " ", "k", " ", "=", " ", "(", "a", ")", " ", "=", ">", " ", "1">>, <<"r", "e", "q", "u", "i", "r", "e", " ", "'", "j", "s", "o", "n", "'">>, <<" ", "r", "e", "q", "u", "i", "r", "e", " ", "\"", "j", "s", "o", "n", "\"">>,
   <<"i", "m", "p", "o", "r", "t", " ", "x", " ", "f", "r", "o", "m", " ", "'", "y", "'">>, <<"i", "n", "c", "l", "u", "d", "e", " ", "A", ":", ":", "B", "c", ":", ":", "D">>, <<"f", "r", "o", "m", " ", "y", " ", "i", "m", "p", "o", "r", "t", " ", "x">>,
   <<"i", "m", "p", "o", "r", "t", " ", "y", ";">>, <<"i", "m", "p", "o", "r", "t", " ", "y", " ", "f", "r", "o", "m", " ", "'", "y", "'">>, <<"g", "e", "m", " ", "'", "j", "s", "o", "n", "'", ";", " ", "l", "o", "a", "d", " ", "'", "y", "'">>, <<" ", " ", "y", " ", "=", " ", "1">>}

\* what the patterns pats push for one line of the content
PushedForLine(pats, line) ==
  PushedByLine(pats, Trim(line), 1)

\* what the two pattern lists push for the lines of the contents, computed once
PushedForContentLine ==
  [l \in ContentLines |-> [functions |-> PushedForLine(FunctionPatterns, l),
                           imports |-> PushedForLine(ImportPatterns, l)]] @@ <<>>

\* the inner loop of extractFunctions for one line
FunctionsOfLine(line) ==
  IF line \in ContentLines THEN PushedForContentLine[line].functions
  ELSE PushedForLine(FunctionPatterns, line)

\* the inner loop of extractImports for one line
ImportsOfLine(line) ==
  IF line \in ContentLines THEN PushedForContentLine[line].imports
  ELSE PushedForLine(ImportPatterns, line)

RECURSIVE Pushed(_, _)
\* the loop over the lines, from line i on: everything pushed, in push
\* order, given what each line pushes
Pushed(byLine, i) ==
  IF i > Len(byLine) THEN <<>> ELSE byLine[i] \o Pushed(byLine, i + 1)

\* the functions array of extractFunctions before the removal of duplicates
PushedFunctions(lines) ==
  Pushed([i \in 1..Len(lines) |-> FunctionsOfLine(lines[i])], 1)

\* the imports array of extractImports before the removal of duplicates
PushedImports(lines) ==
  Pushed([i \in 1..Len(lines) |-> ImportsOfLine(lines[i])], 1)

\* the positions of xs that hold the first occurrence of their value
FirstOccurrences(xs) ==
  {i \in 1..Len(xs) : \A j \in 1..(i - 1) : xs[j] # xs[i]}

\* the values at the positions keep, in position order
AtPositions(xs, keep) ==
  [k \in 1..Cardinality(keep) |->
     xs[CHOOSE i \in keep : Cardinality({j \in keep : j < i}) = k - 1]]

\* the array returned without the removal of duplicates
KeepAll(xs) ==
  xs

\* [...new Set(xs)]: a Set keeps insertion order, so each value stays at its
\* first occurrence
Unique(xs) ==
  AtPositions(xs, FirstOccurrences(xs))

extractFunctions(content) ==
  Unique(PushedFunctions(Split(content, "\n")))

extractImports(content) ==
  Unique(PushedImports(Split(content, "\n")))

\* the FileAnalysis analyzeFile returns for a file that was read
analyzeFile(filePath, content) ==
  [path |-> filePath,
   content |-> content,
   lineCount |-> Len(Split(content, "\n")),
   functions |-> extractFunctions(content),
   imports |-> extractImports(content)]

\* ------------------------------------------------------------------------
\* analyzeFile on its own: one content analyzed twice
\* ------------------------------------------------------------------------
MaxContentLines ==
  2

Contents ==
  {JoinLines(ls) : ls \in SeqsUpTo(ContentLines, MaxContentLines)}

\* the times analyzeFile is called on the content
MaxAnalyses ==
  2

InitExtract ==
  /\ IdleTrace
  /\ ctx = IdleCtx
  /\ scan = IdleScan
  /\ sentry = IdleSentry
  /\ IdleServer
  /\ \E c \in Contents : ex = [content |-> c, results |-> <<>>]

\* a call of analyzeFile on a file with the content
AnalyzeFile ==
  /\ Len(ex.results) < MaxAnalyses
  /\ ex' = [ex EXCEPT !.results = Append(@, analyzeFile(<<>>, ex.content))]
  /\ UNCHANGED <<traceVars, ctx, scan, sentry, serverVars>>

SpecExtract ==
  InitExtract /\ [][AnalyzeFile]_vars

\* ------------------------------------------------------------------------
\* analyzeCodebase: glob, the ignore rules, the cap and the loop over files
\* (a path is the sequence of its components, relative to the root)
\* ------------------------------------------------------------------------
\* this.gitignorePatterns = null
NoPatterns ==
  "null"

\* no .gitignore at the root, or one that cannot be read: fs.readFile throws
NoGitignore ==
  "none"

\* a name that starts with a dot
Hidden(c) ==
  c # <<>> /\ c[1] = "."

EndsWith(s, t) ==
  Len(t) <= Len(s) /\ SubSeq(s, Len(s) - Len(t) + 1, Len(s)) = t

\* '**/*.{rb,erb,rake}'
PrimaryExtensions ==
  {<<"r", "b">>, <<"e", "r", "b">>, <<"r", "a", "k", "e">>}

\* '**/*.{ts,tsx,js,jsx,py,java,go,php,cs,cpp,c,h}'
SecondaryExtensions ==
  {<<"t", "s">>, <<"t", "s", "x">>, <<"j", "s">>, <<"j", "s", "x">>, <<"p", "y">>, <<"j", "a", "v", "a">>, <<"g", "o">>, <<"p", "h", "p">>, <<"c", "s">>,
   <<"c", "p", "p">>, <<"c">>, <<"h">>}

\* the patterns array given to glob: a pattern is '**/*.{exts}' or 'dir/**'.
\* glob has no negation: a pattern that starts with ! names a directory
\* whose name starts with !
GlobPatterns ==
  <<[k |-> "ext", exts |-> PrimaryExtensions, dir |-> <<>>],
    [k |-> "ext", exts |-> SecondaryExtensions, dir |-> <<>>],
    [k |-> "under", exts |-> {}, dir |-> <<"!", "n", "o", "d", "e", "_", "m", "o", "d", "u", "l", "e", "s">>],
    [k |-> "under", exts |-> {}, dir |-> <<"!", "d", "i", "s", "t">>],
    [k |-> "under", exts |-> {}, dir |-> <<"!", "b", "u", "i", "l", "d">>],
    [k |-> "under", exts |-> {}, dir |-> <<"!", ".", "g", "i", "t">>],
    [k |-> "under", exts |-> {}, dir |-> <<"!", "v", "e", "n", "d", "o", "r">>],
    [k |-> "under", exts |-> {}, dir |-> <<"!", "t", "m", "p">>]>>

\* glob's match of one pattern against a path.  ** and * do not match a name
\* that starts with a dot (the dot option is not set); 'dir/**' matches dir
\* and everything below it.
GlobMatch(pat, p) ==
  IF pat.k = "ext"
  THEN /\ \A i \in 1..Len(p) : ~Hidden(p[i])
       /\ \E e \in pat.exts : EndsWith(p[Len(p)], <<".">> \o e)
  ELSE /\ p[1] = pat.dir
       /\ \A i \in 2..Len(p) : ~Hidden(p[i])

\* glob(patterns, { cwd }): the entries under the root that match a pattern,
\* in the order of the walk
glob(entries) ==
  SelectSeq([i \in 1..Len(entries) |-> entries[i].path],
            LAMBDA p : \E k \in 1..Len(GlobPatterns) : GlobMatch(GlobPatterns[k], p))

\* ignore().add(content): the rules are the lines of the content that are
\* neither empty nor comments
IgnoreRules(content) ==
  SelectSeq(Split(content, "\n"), LAMBDA l : l # <<>> /\ l[1] # "#")

\* a rule 'name/' ignores what is below a directory called name at any
\* depth; a rule 'name' ignores a file or directory called name at any depth
RuleIgnores(rule, p) ==
  IF rule[Len(rule)] = "/"
  THEN \E i \in 1..(Len(p) - 1) : p[i] \o <<"/">> = rule
  ELSE \E i \in 1..Len(p) : p[i] = rule

Ignores(rules, p) ==
  \E r \in 1..Len(rules) : RuleIgnores(rules[r], p)

\* filterIgnoredFiles with the patterns the field holds
filterIgnoredFiles(files, gitignorePatterns) ==
  IF gitignorePatterns = NoPatterns THEN files
  ELSE SelectSeq(files, LAMBDA p : ~Ignores(gitignorePatterns, p))

\* filteredFiles.slice(0, 50)
FileCap ==
  50

\* ------------------------------------------------------------------------
\* The codebase roots of the scans
\* ------------------------------------------------------------------------
ScanContent ==
  [ruby |-> <<"r", "e", "q", "u", "i", "r", "e", " ", "'", "j", "s", "o", "n", "'", "\n", "d", "e", "f", " ", "f", "\n", "e", "n", "d">>, script |-> <<"i", "m", "p", "o", "r", "t", " ", "x", " ", "f", "r", "o", "m", " ", "'", "y", "'">>]

\* an entry of a root: a readable file, a file that cannot be read, a directory
File(p, c) ==
  [path |-> p, kind |-> "file", content |-> c]

Dir(p) ==
  [path |-> p, kind |-> "dir", content |-> Unreadable]

DigitChars ==
  <<"0", "1", "2", "3", "4", "5", "6", "7", "8", "9">>

\* f01.rb, f02.rb, ...
NumberedName(i) ==
  <<"f", DigitChars[(i \div 10) + 1], DigitChars[(i % 10) + 1]>> \o <<".", "r", "b">>

\* the number of files of the large root, more than the cap
BigRootFiles ==
  52

\* The roots: a project with a .gitignore, build and dependency directories,
\* a file that cannot be read and a directory whose name starts with !; a
\* project without .gitignore; a project with more files than the cap.
ScanRoots ==
  [project |->
     [gitignore |-> <<"#", " ", "g", "e", "n", "e", "r", "a", "t", "e", "d", "\n", "g", "e", "n", "/", "\n">>,
      entries |-> <<File(<<<<"l", "i", "b">>, <<"a", ".", "r", "b">>>>, "ruby"),
                    File(<<<<"g", "e", "n">>, <<"b", ".", "r", "b">>>>, "ruby"),
                    File(<<<<"n", "o", "d", "e", "_", "m", "o", "d", "u", "l", "e", "s">>, <<"p">>, <<"i", ".", "j", "s">>>>, "script"),
                    File(<<<<"l", "i", "b">>, <<"b", "a", "d", ".", "r", "b">>>>, Unreadable),
                    File(<<<<"v", "e", "n", "d", "o", "r">>, <<"v", ".", "r", "b">>>>, "ruby"),
                    File(<<<<"d", "o", "c", "s">>, <<"n", ".", "m", "d">>>>, "script"),
                    File(<<<<".", "g", "i", "t">>, <<"h", ".", "r", "b">>>>, "ruby"),
                    Dir(<<<<"!", "t", "m", "p">>>>),
                    File(<<<<"!", "t", "m", "p">>, <<"n", ".", "m", "d">>>>, "script"),
                    File(<<<<"t", "m", "p">>, <<"t", ".", "r", "b">>>>, "ruby"),
                    File(<<<<"d", "i", "s", "t">>, <<"d", ".", "j", "s">>>>, "script"),
                    File(<<<<"b", "u", "i", "l", "d">>, <<"o", ".", "c">>>>, "script"),
                    File(<<<<"m", "a", "i", "n", ".", "p", "y">>>>, "script")>>],
   plain |->
     [gitignore |-> NoGitignore,
      entries |-> <<File(<<<<"g", "e", "n">>, <<"b", ".", "r", "b">>>>, "ruby"),
                    File(<<<<"l", "i", "b">>, <<"c", ".", "p", "y">>>>, "script"),
                    File(<<<<"l", "i", "b">>, <<"b", "a", "d", ".", "r", "b">>>>, Unreadable)>>],
   big |->
     [gitignore |-> <<"f", "0", "2", ".", "r", "b">>,
      entries |-> [i \in 1..BigRootFiles |->
                     File(<<<<"l", "i", "b">>, NumberedName(i)>>, IF i = 3 THEN Unreadable ELSE "ruby")]]]

RootNames ==
  DOMAIN ScanRoots

\* the roots of the two calls: at most one of them is the large root
RootPairs ==
  {rs \in RootNames \X RootNames : rs[1] # "big" \/ rs[2] # "big"}

\* ------------------------------------------------------------------------
\* analyzeCodebase, called twice on one CodebaseAnalyzer; the calls
\* interleave at their await points
\* ------------------------------------------------------------------------
NewCall(root) ==
  [pc |-> "idle", root |-> root, files |-> <<>>, i |-> 1, analyses |-> <<>>,
   used |-> NoPatterns, read |-> <<>>]

InitScan ==
  /\ IdleTrace
  /\ ctx = IdleCtx
  /\ sentry = IdleSentry
  /\ ex = IdleEx
  /\ IdleServer
  /\ \E rs \in RootPairs :
       scan = [gitignorePatterns |-> NoPatterns, calls |-> <<NewCall(rs[1]), NewCall(rs[2])>>]

\* analyzeCodebase(codebasePath) up to the readFile of loadGitignore
CallAnalyzeCodebase(c) ==
  /\ scan.calls[c].pc = "idle"
  /\ scan' = [scan EXCEPT !.calls[c].pc = "loadGitignore"]
  /\ UNCHANGED <<traceVars, ctx, sentry, ex, serverVars>>

\* what loadGitignore stores for a root
LoadedPatterns(root) ==
  IF ScanRoots[root].gitignore = NoGitignore THEN NoPatterns
  ELSE IgnoreRules(ScanRoots[root].gitignore)

\* loadGitignore after its readFile: the field is set from the content, or to
\* null in the catch; analyzeCodebase goes on to the call of glob
LoadGitignore(c) ==
  /\ scan.calls[c].pc = "loadGitignore"
  /\ scan' = [scan EXCEPT !.gitignorePatterns = LoadedPatterns(scan.calls[c].root),
                          !.calls[c].pc = "glob"]
  /\ UNCHANGED <<traceVars, ctx, sentry, ex, serverVars>>

\* after await glob: filterIgnoredFiles with the field as it is now
FilterFiles(c) ==
  /\ scan.calls[c].pc = "glob"
  /\ scan' = [scan EXCEPT
       !.calls[c].files = filterIgnoredFiles(glob(ScanRoots[scan.calls[c].root].entries),
                                             scan.gitignorePatterns),
       !.calls[c].used = scan.gitignorePatterns,
       !.calls[c].pc = "analyze"]
  /\ UNCHANGED <<traceVars, ctx, sentry, ex, serverVars>>

\* the entry of the root at a path
EntryAt(root, p) ==
  CHOOSE e \in {ScanRoots[root].entries[i] : i \in 1..Len(ScanRoots[root].entries)} : e.path = p

\* fs.readFile throws for a directory and for a file that cannot be read
Readable(e) ==
  e.kind = "file" /\ e.content # Unreadable

\* analyzeFile on the contents of the roots, computed once
AnalysisOfScanContent ==
  [c \in DOMAIN ScanContent |-> analyzeFile(<<>>, ScanContent[c])] @@ <<>>

\* analyzeFile(path.join(codebasePath, file)) for a readable entry
AnalysisOfEntry(e) ==
  [AnalysisOfScanContent[e.content] EXCEPT !.path = e.path]

\* a throwing read ends the call with the error
PushOrThrow(call, e) ==
  IF Readable(e)
  THEN [call EXCEPT !.analyses = Append(@, AnalysisOfEntry(e)),
                    !.read = Append(@, e.path),
                    !.i = @ + 1]
  ELSE [call EXCEPT !.pc = "failed", !.read = Append(@, e.path)]

\* one iteration of the loop over filteredFiles.slice(0, 50): analyzeFile
\* reads the file (read holds the paths given to it) and returns null when the
\* read throws, and null is not pushed
PushOrSkip(call, e) ==
  IF Readable(e)
  THEN [call EXCEPT !.analyses = Append(@, AnalysisOfEntry(e)),
                    !.read = Append(@, e.path),
                    !.i = @ + 1]
  ELSE [call EXCEPT !.read = Append(@, e.path), !.i = @ + 1]

AnalyzeNext(c) ==
  /\ scan.calls[c].pc = "analyze"
  /\ scan.calls[c].i <= Min2(Len(scan.calls[c].files), FileCap)
  /\ scan' = [scan EXCEPT !.calls[c] =
                PushOrSkip(@, EntryAt(scan.calls[c].root, scan.calls[c].files[scan.calls[c].i]))]
  /\ UNCHANGED <<traceVars, ctx, sentry, ex, serverVars>>

\* return analyses
ReturnAnalyses(c) ==
  /\ scan.calls[c].pc = "analyze"
  /\ scan.calls[c].i > Min2(Len(scan.calls[c].files), FileCap)
  /\ scan' = [scan EXCEPT !.calls[c].pc = "done"]
  /\ UNCHANGED <<traceVars, ctx, sentry, ex, serverVars>>

NextScan ==
  \E c \in 1..2 :
    \/ CallAnalyzeCodebase(c)
    \/ LoadGitignore(c)
    \/ FilterFiles(c)
    \/ AnalyzeNext(c)
    \/ ReturnAnalyses(c)

SpecScan ==
  InitScan /\ [][NextScan]_vars

\* ------------------------------------------------------------------------
\* SentryService: the constructor, getIssues, getIssueDetails, resolveShortId,
\* getIssueEvents and getLatestEvent
\* ------------------------------------------------------------------------
\* options.limit || 10
DefaultLimit ==
  10

\* Math.min(..., 100)
MaxLimit ==
  100

\* a || b for an optional number: <<>> (undefined) and 0 are falsy
OrElse(limit, default) ==
  IF limit = Undefined \/ limit[1] = 0 THEN default ELSE limit[1]

\* the limit sent without the cap
UncappedLimit(limit) ==
  OrElse(limit, DefaultLimit)

\* the limit parameter of getIssues: Math.min(options.limit || 10, 100)
ForwardedLimit(limit) ==
  Min2(OrElse(limit, DefaultLimit), MaxLimit)

\* getSentryIssues of the server: limit: args.limit || 10
ToolLimit(limit) ==
  <<OrElse(limit, DefaultLimit)>>

\* [A-Z0-9-] and [A-Z0-9] under the i flag
ShortIdChar ==
  Upper \cup Lower \cup Digit \cup {"-"}

Alnum ==
  Upper \cup Lower \cup Digit

\* /^[A-Z0-9-]+-[A-Z0-9]+$/i
ShortIdPattern ==
  <<Plus(ShortIdChar), Lit(<<"-">>), Plus(Alnum), End>>

isShortId(id) ==
  TestAtStart(ShortIdPattern, id)

\* the issues a project request asks for: ?limit=100
PageLimit ==
  100

\* three decimal digits of i
Digits3(i) ==
  <<DigitChars[(i \div 100) + 1], DigitChars[((i \div 10) % 10) + 1], DigitChars[(i % 10) + 1]>>

\* issue i of a project: its full ID and its short ID
Issue(prefix, base, i) ==
  [id |-> base \o Digits3(i), shortId |-> prefix \o <<"-">> \o Digits3(i)]

\* the number of issues of the large project, more than one page
BigProjectIssues ==
  101

\* the issues of a project, the most recent first
AtsIssues ==
  [i \in 1..BigProjectIssues |-> Issue(<<"A", "T", "S">>, <<"4", "5", "6", "7", "8", "9", "0">>, i)]

WebIssues ==
  [i \in 1..2 |-> Issue(<<"W", "E", "B", "-", "U", "I">>, <<"8", "1">>, i)]

\* The organizations: the projects in the order /organizations/{org}/projects/
\* lists them; a project whose issues request fails has ok = FALSE.
Organizations ==
  [acme |-> <<[slug |-> "ats", ok |-> TRUE, issues |-> AtsIssues],
              [slug |-> "web-ui", ok |-> TRUE, issues |-> WebIssues]>>,
   flaky |-> <<[slug |-> "down", ok |-> FALSE, issues |-> <<>>],
               [slug |-> "web-ui", ok |-> TRUE, issues |-> WebIssues],
               [slug |-> "ats", ok |-> TRUE, issues |-> AtsIssues]>>,
   empty |-> <<>>]

\* the issue IDs given to getIssueDetails and getLatestEvent
IssueIds ==
  {AtsIssues[1].shortId, AtsIssues[PageLimit].shortId, AtsIssues[BigProjectIssues].shortId,
   WebIssues[2].shortId, AtsIssues[1].id, AtsIssues[BigProjectIssues].id, WebIssues[1].id,
   <<"a", "t", "s", "-", "0", "0", "1">>, <<"N", "O", "P", "E", "-", "1">>, <<"9", "9", "9">>, <<"A", "T", "S", "_", "1">>}

\* the limits asked of getIssues
RequestedLimits ==
  {Undefined} \cup {<<n>> : n \in {0, 1, 2, 10, 11, 99, 100, 101, 102, 250}}

\* all the issues of an organization
IssuesOf(org) ==
  UNION {{Organizations[org][p].issues[i] : i \in 1..Len(Organizations[org][p].issues)} :
           p \in 1..Len(Organizations[org])}

\* response.data of the issues request of a project: the first page
FirstPage(project) ==
  SubSeq(project.issues, 1, Min2(Len(project.issues), PageLimit))

\* everything the project has, as if one request returned it
AllIssues(project) ==
  project.issues

\* projectIssuesResponse.data.find(issue => issue.shortId === shortId)
FindShortId(data, shortId) ==
  {data[i] : i \in {j \in 1..Len(data) : data[j].shortId = shortId /\
                                         \A q \in 1..(j - 1) : data[q].shortId # shortId}}

\* process.env.X: Undefined when the variable is not set, <<v>> when it is set
\* to the text v
EnvTokens ==
  {Undefined, <<"">>, <<"token">>}

EnvOrganizations ==
  {Undefined, <<"">>} \cup {<<o>> : o \in DOMAIN Organizations}

\* a value of process.env as a condition: not set and the empty text are falsy
Truthy(v) ==
  v # Undefined /\ v[1] # ""

\* configureFromEnv with || in the place of &&
configureFromEnvEither(service0, authToken, organization) ==
  IF Truthy(authToken) \/ Truthy(organization)
  THEN [service0 EXCEPT !.client = "AxiosInstance",
                        !.organization = IF organization = Undefined THEN "null" ELSE organization[1]]
  ELSE service0

\* configureFromEnv: client and organization are assigned only when both
\* variables are truthy
configureFromEnv(service0, authToken, organization) ==
  IF Truthy(authToken) /\ Truthy(organization)
  THEN [service0 EXCEPT !.client = "AxiosInstance",
                        !.organization = organization[1]]
  ELSE service0

\* return this.client !== null && this.organization !== null
isConfigured(s) ==
  s.client # "null" /\ s.organization # "null"

\* the fields of a new SentryService (client = null, organization = null)
\* together with a call on it that has not started
IdleCall ==
  [pc |-> "idle", op |-> "none", env |-> [SENTRY_AUTH_TOKEN |-> Undefined, SENTRY_ORGANIZATION |-> Undefined],
   client |-> "null", organization |-> "null", requests |-> 0, issueId |-> <<>>,
   limit |-> Undefined, viaTool |-> FALSE, hasProject |-> TRUE, k |-> 1, resolved |-> <<>>, requested |-> <<>>,
   forwarded |-> 0, result |-> <<>>, error |-> "none"]

\* the operations that take an issue ID
LookupOperations ==
  {"getIssueDetails", "resolveShortId", "getIssueEvents", "getLatestEvent"}

\* constructor(): this.configureFromEnv()
Constructed(call, authToken, organization) ==
  configureFromEnv([call EXCEPT !.env = [SENTRY_AUTH_TOKEN |-> authToken,
                                         SENTRY_ORGANIZATION |-> organization]],
                   authToken, organization)

InitSentry ==
  /\ IdleTrace
  /\ ctx = IdleCtx
  /\ scan = IdleScan
  /\ ex = IdleEx
  /\ IdleServer
  /\ \E authToken \in EnvTokens : \E organization \in EnvOrganizations :
       \/ \E l \in RequestedLimits : \E t, hp \in BOOLEAN :
            sentry = Constructed([IdleCall EXCEPT !.op = "getIssues", !.limit = l, !.viaTool = t,
                                                  !.hasProject = hp],
                                 authToken, organization)
       \/ \E o \in LookupOperations : \E id \in IssueIds :
            sentry = Constructed([IdleCall EXCEPT !.op = o, !.issueId = id],
                                 authToken, organization)

\* if (!this.isConfigured()) throw
NotConfigured ==
  /\ sentry.pc = "idle"
  /\ ~isConfigured(sentry)
  /\ sentry' = [sentry EXCEPT !.pc = "failed", !.error = "not configured"]
  /\ UNCHANGED <<traceVars, ctx, scan, ex, serverVars>>

\* getIssues up to the request: without a project parameter and a default
\* project it throws, else it sends the limit parameter
getIssues ==
  /\ sentry.pc = "idle"
  /\ isConfigured(sentry)
  /\ sentry.op = "getIssues"
  /\ sentry' = IF ~sentry.hasProject
               THEN [sentry EXCEPT !.pc = "failed", !.error = "no project"]
               ELSE [sentry EXCEPT
                       !.pc = "done",
                       !.requests = @ + 1,
                       !.forwarded = ForwardedLimit(IF sentry.viaTool THEN ToolLimit(sentry.limit)
                                                    ELSE sentry.limit)]
  /\ UNCHANGED <<traceVars, ctx, scan, ex, serverVars>>

\* getIssueDetails, getIssueEvents and getLatestEvent up to their first
\* request: a short ID goes to resolveShortId, any other ID is used as it is;
\* resolveShortId called by itself searches for any ID
BeginLookup ==
  /\ sentry.pc = "idle"
  /\ isConfigured(sentry)
  /\ sentry.op \in LookupOperations
  /\ sentry' = IF sentry.op = "resolveShortId" \/ isShortId(sentry.issueId)
               THEN [sentry EXCEPT !.pc = "projects"]
               ELSE [sentry EXCEPT !.pc = "fetch", !.requested = sentry.issueId]
  /\ UNCHANGED <<traceVars, ctx, scan, ex, serverVars>>

\* resolveShortId: the projects request returned
ListProjects ==
  /\ sentry.pc = "projects"
  /\ sentry' = [sentry EXCEPT !.pc = "search", !.k = 1, !.requests = @ + 1]
  /\ UNCHANGED <<traceVars, ctx, scan, ex, serverVars>>

\* resolveShortId returned match.id: its caller requests the issue with it,
\* and a call of resolveShortId itself is done
Resolved(call, id) ==
  IF call.op = "resolveShortId"
  THEN [call EXCEPT !.pc = "done", !.resolved = id, !.result = id]
  ELSE [call EXCEPT !.pc = "fetch", !.resolved = id, !.requested = id]

\* the outcome of the issues request of project k: a failed request and a
\* page without the short ID go on to the next project; a match returns its id
AfterPage(call, project, found) ==
  IF project.ok /\ found # {}
  THEN Resolved([call EXCEPT !.requests = @ + 1], (CHOOSE m \in found : TRUE).id)
  ELSE [call EXCEPT !.k = @ + 1, !.requests = @ + 1]

\* resolveShortId: one iteration of the loop over the projects
SearchProject ==
  /\ sentry.pc = "search"
  /\ sentry.k <= Len(Organizations[sentry.organization])
  /\ sentry' = AfterPage(sentry, Organizations[sentry.organization][sentry.k],
                         FindShortId(FirstPage(Organizations[sentry.organization][sentry.k]),
                                     sentry.issueId))
  /\ UNCHANGED <<traceVars, ctx, scan, ex, serverVars>>

\* resolveShortId: throw new Error('Issue with short ID ... not found'),
\* rethrown by the caller as its failure
ShortIdNotFound ==
  /\ sentry.pc = "search"
  /\ sentry.k > Len(Organizations[sentry.organization])
  /\ sentry' = [sentry EXCEPT !.pc = "failed", !.error = "not found"]
  /\ UNCHANGED <<traceVars, ctx, scan, ex, serverVars>>

\* the answer of GET /issues/{id}/ (or its events, or its latest event): the
\* issue with the full ID, none when there is no such issue
Answer(call, hit) ==
  IF hit = {} THEN [call EXCEPT !.pc = "failed", !.error = "request failed", !.requests = @ + 1]
  ELSE [call EXCEPT !.pc = "done", !.result = (CHOOSE m \in hit : TRUE).id, !.requests = @ + 1]

\* this.client.get(`/issues/${id}/`), /issues/${id}/events/ and
\* /issues/${id}/events/latest/
FetchIssue ==
  /\ sentry.pc = "fetch"
  /\ sentry' = Answer(sentry, {m \in IssuesOf(sentry.organization) : m.id = sentry.requested})
  /\ UNCHANGED <<traceVars, ctx, scan, ex, serverVars>>

NextSentry ==
  \/ NotConfigured
  \/ getIssues
  \/ BeginLookup
  \/ ListProjects
  \/ SearchProject
  \/ ShortIdNotFound
  \/ FetchIssue

SpecSentry ==
  InitSentry /\ [][NextSentry]_vars

\* ------------------------------------------------------------------------
\* SentryService: extractStackTrace and extractRelevantFiles
\* (an event is its exception.values; a missing exception and a missing
\* stacktrace are the empty list)
\* ------------------------------------------------------------------------
RECURSIVE NumberToText(_)
\* `${n}` for a number that is not negative
NumberToText(n) ==
  IF n < 10 THEN <<DigitChars[n + 1]>>
  ELSE NumberToText(n \div 10) \o <<DigitChars[(n % 10) + 1]>>

\* the array in reverse order
Reversed(xs) ==
  [i \in 1..Len(xs) |-> xs[Len(xs) + 1 - i]]

\* `${frame.filename}:${frame.lineno}${frame.colno ? `:${frame.colno}` : ''}`
Location(frame) ==
  frame.filename \o <<":">> \o NumberToText(frame.lineno)
    \o (IF frame.colno = Undefined \/ frame.colno[1] = 0 THEN <<>>
        ELSE <<":">> \o NumberToText(frame.colno[1]))

\* `  at ${frame.function || '<anonymous>'} (${location})`
StackLine(frame) ==
  <<" ", " ", "a", "t", " ">> \o (IF frame.function = <<>> THEN Anonymous ELSE frame.function)
    \o <<" ", "(">> \o Location(frame) \o <<")">>

\* `${exception.type}: ${exception.value}\n${stackLines.join('\n')}`
StackText(exception, frames0) ==
  JoinLines(<<exception.type \o <<":", " ">> \o exception.value>>
              \o [i \in 1..Len(frames0) |-> StackLine(frames0[i])])

\* extractStackTrace: null without a first exception with frames; else
\* frames.reverse() reverses the frames of the event's first exception in
\* place and the text is built from them.  The result is the text (null, or
\* <<text>>) and the event as the call leaves it.
extractStackTrace(event) ==
  IF Len(event) = 0 \/ Len(event[1].frames) = 0
  THEN [text |-> Null, event |-> event]
  ELSE [text |-> <<StackText(event[1], Reversed(event[1].frames))>>,
        event |-> [event EXCEPT ![1].frames = Reversed(@)]]

\* filename without a leading "/" and then without a leading "./"
Normalized(filename) ==
  LET noSlash == IF HasAt(filename, <<"/">>, 1) THEN SubSeq(filename, 2, Len(filename))
                 ELSE filename
  IN IF HasAt(noSlash, <<".", "/">>, 1) THEN SubSeq(noSlash, 3, Len(noSlash)) ELSE noSlash

RECURSIVE Flattened(_, _)
Flattened(xss, i) ==
  IF i > Len(xss) THEN <<>> ELSE xss[i] \o Flattened(xss, i + 1)

\* the frames of all the exceptions, in the order the two loops visit them
AllFrames(event) ==
  Flattened([v \in 1..Len(event) |-> event[v].frames], 1)

\* extractRelevantFiles: the normalized file names of the in-app frames, in
\* the order of their first insertion into the Set
extractRelevantFiles(event) ==
  Unique([i \in 1..Len(SelectSeq(AllFrames(event), LAMBDA fr : fr.in_app /\ fr.filename # <<>>)) |->
            Normalized(SelectSeq(AllFrames(event), LAMBDA fr : fr.in_app /\ fr.filename # <<>>)[i].filename)])

\* frames of events
RbFrame ==
  [filename |-> <<"a", "p", "p", "/", "x", ".", "r", "b">>, function |-> <<"f">>, lineno |-> 2, colno |-> Undefined, in_app |-> TRUE]

JsFrame ==
  [filename |-> <<".", "/", "y", ".", "j", "s">>, function |-> <<"g", "_", "1">>, lineno |-> 12, colno |-> <<4>>, in_app |-> TRUE]

NoColumnFrame ==
  [filename |-> <<"/", "y", ".", "j", "s">>, function |-> <<>>, lineno |-> 7, colno |-> Undefined, in_app |-> TRUE]

LibFrame ==
  [filename |-> <<"l", "i", "b", "/", "z", ".", "j", "s">>, function |-> <<"h">>, lineno |-> 3, colno |-> <<1>>, in_app |-> FALSE]

Exception(type, value, frames0) ==
  [type |-> type, value |-> value, frames |-> frames0]

\* The latest events: without exception; without stack trace; frames of a
\* script with columns; a Ruby frame; two in-app frames; a message that
\* quotes a file and a line; frames only in the second exception; frames
\* only of a library; a frame without function and column.
Events ==
  [none |-> <<>>,
   notrace |-> <<Exception(<<"E", "r", "r", "o", "r">>, <<"b", "o", "o", "m">>, <<>>)>>,
   script |-> <<Exception(<<"T", "y", "p", "e", "E", "r", "r", "o", "r">>, <<"x", " ", "i", "s", " ", "u", "n", "d", "e", "f", "i", "n", "e", "d">>, <<LibFrame, JsFrame>>)>>,
   ruby |-> <<Exception(<<"N", "o", "M", "e", "t", "h", "o", "d", "E", "r", "r", "o", "r">>, <<"u", "n", "d", "e", "f", "i", "n", "e", "d", " ", "m", "e", "t", "h", "o", "d">>, <<RbFrame>>)>>,
   two |-> <<Exception(<<"T", "y", "p", "e", "E", "r", "r", "o", "r">>, <<"x", " ", "i", "s", " ", "u", "n", "d", "e", "f", "i", "n", "e", "d">>, <<JsFrame, RbFrame>>)>>,
   quoting |-> <<Exception(<<"S", "y", "n", "t", "a", "x", "E", "r", "r", "o", "r">>, <<"x", ".", "r", "b", ":", "2", ":", " ", "u", "n", "e", "x", "p", "e", "c", "t", "e", "d", " ", "e", "n", "d">>, <<JsFrame>>)>>,
   second |-> <<Exception(<<"E", "r", "r", "o", "r">>, <<"b", "o", "o", "m">>, <<>>),
                Exception(<<"E", "r", "r", "o", "r">>, <<"c", "a", "u", "s", "e">>, <<JsFrame>>)>>,
   library |-> <<Exception(<<"E", "r", "r", "o", "r">>, <<"b", "o", "o", "m">>, <<LibFrame>>)>>,
   nocolumn |-> <<Exception(<<"E", "r", "r", "o", "r">>, <<"b", "o", "o", "m">>, <<NoColumnFrame>>)>>]

EventNames ==
  DOMAIN Events

\* ------------------------------------------------------------------------
\* IssueInvestigator.investigate
\* ------------------------------------------------------------------------
\* the issue IDs given to investigate
InvestigatedIds ==
  {AtsIssues[1].shortId, WebIssues[1].id, <<"N", "O", "P", "E", "-", "1">>, <<"9", "9", "9">>}

\* the files under the codebase path
InvestigateFileSystems ==
  {EmptyFs, [EmptyFs EXCEPT ![<<"a", "p", "p", "/", "x", ".", "r", "b">>] = "short"]}

\* the headings of the report, in the order of the text of investigate
Headings ==
  <<"Issue Investigation Report", "Stack Trace Analysis", "Relevant Files Analysis",
    "Issue Analysis", "Suggested Fixes">>

\* a call of investigate that awaits getIssueDetails
Investigation(issueId, includeFix, event) ==
  [pc |-> "details", issueId |-> issueId, includeFix |-> includeFix, given |-> event,
   event |-> event, stackTrace |-> Null, relevantFiles |-> <<>>, analyzed |-> <<>>,
   report |-> <<>>, result |-> "none", error |-> "none"]

InitInvestigate ==
  /\ stackTrace = <<>>
  /\ fs \in InvestigateFileSystems
  /\ pc = "done"
  /\ lineNo = 1
  /\ frames = <<>>
  /\ origin = <<>>
  /\ listing = <<>>
  /\ frameNo = 1
  /\ blocks = <<>>
  /\ reads = <<>>
  /\ outcome = "none"
  /\ ctx = IdleCtx
  /\ scan = IdleScan
  /\ ex = IdleEx
  /\ tool = [pc |-> "idle"]
  /\ \E authToken \in EnvTokens : \E organization \in EnvOrganizations :
     \E id \in InvestigatedIds : \E includeFix \in BOOLEAN : \E e \in EventNames :
       /\ sentry = Constructed([IdleCall EXCEPT !.op = "getIssueDetails", !.issueId = id],
                               authToken, organization)
       /\ inv = Investigation(id, includeFix, Events[e])

\* the service as the next call finds it: its fields, and a call not started
NextCall(call, op) ==
  [call EXCEPT !.pc = "idle", !.op = op, !.k = 1, !.resolved = <<>>, !.requested = <<>>,
               !.result = <<>>, !.error = "none"]

\* Promise.all([getIssueDetails(issueId), getLatestEvent(issueId)]): the
\* two calls are given the same ID on the same service; they are run one
\* after the other here, the second when the first has fulfilled
DetailsFetched ==
  /\ inv.pc = "details"
  /\ sentry.pc = "done"
  /\ sentry' = NextCall(sentry, "getLatestEvent")
  /\ inv' = [inv EXCEPT !.pc = "latest"]
  /\ UNCHANGED <<traceVars, ctx, scan, ex, tool>>

\* let investigation = this.formatIssueHeader(issue)
LatestFetched ==
  /\ inv.pc = "latest"
  /\ sentry.pc = "done"
  /\ inv' = [inv EXCEPT !.pc = "extract", !.report = <<Headings[1]>>]
  /\ UNCHANGED <<traceVars, ctx, scan, sentry, ex, tool>>

\* investigate without its catch: the rejection reaches the caller
Rethrown(inv0, error) ==
  [inv0 EXCEPT !.pc = "returned", !.result = "raised", !.error = error]

\* catch (error) { return `Error investigating issue: ...` }
CaughtError(inv0, error) ==
  [inv0 EXCEPT !.pc = "returned", !.result = "error", !.error = error, !.report = <<>>]

\* a rejection of Promise.all
FetchFailed ==
  /\ inv.pc \in {"details", "latest"}
  /\ sentry.pc = "failed"
  /\ inv' = CaughtError(inv, sentry.error)
  /\ UNCHANGED <<traceVars, ctx, scan, sentry, ex, tool>>

\* const stackTrace = extractStackTrace(latestEvent) and, if (stackTrace),
\* the heading and the call of analyzeStackTrace
ExtractTrace ==
  /\ inv.pc = "extract"
  /\ \E r \in {extractStackTrace(inv.event)} :
       IF r.text = Null
       THEN /\ inv' = [inv EXCEPT !.pc = "files", !.event = r.event]
            /\ UNCHANGED traceVars
       ELSE /\ inv' = [inv EXCEPT !.pc = "trace", !.event = r.event, !.stackTrace = r.text,
                                  !.report = Append(@, Headings[2])]
            /\ stackTrace' = r.text[1]
            /\ pc' = "parse"
            /\ UNCHANGED <<fs, lineNo, frames, origin, listing, frameNo, blocks, reads, outcome>>
  /\ UNCHANGED <<ctx, scan, sentry, ex, tool>>

\* investigation += await analyzeStackTrace(...): the analysis begins with
\* its own "Stack Trace Analysis" heading, the "Could not parse" text has none
TraceAnalyzed ==
  /\ inv.pc = "trace"
  /\ pc = "done"
  /\ inv' = [inv EXCEPT !.pc = "files",
                        !.report = IF outcome = "analysis" THEN Append(@, Headings[2]) ELSE @]
  /\ UNCHANGED <<traceVars, ctx, scan, sentry, ex, tool>>

\* analyzeRelevantFiles: the files of files.slice(0, 5) that analyzeFile
\* could read
AnalyzedFiles(files) ==
  SelectSeq(SubSeq(files, 1, Min2(Len(files), 5)),
            LAMBDA f : ReadFile(f) \notin {Absent, Unreadable})

\* const relevantFiles = extractRelevantFiles(latestEvent) and, if there are
\* any, the heading and analyzeRelevantFiles
RelevantFiles ==
  /\ inv.pc = "files"
  /\ \E files \in {extractRelevantFiles(inv.event)} :
       inv' = [inv EXCEPT !.pc = "analysis",
                          !.relevantFiles = files,
                          !.analyzed = AnalyzedFiles(files),
                          !.report = IF Len(files) > 0 THEN Append(@, Headings[3]) ELSE @]
  /\ UNCHANGED <<traceVars, ctx, scan, sentry, ex, tool>>

\* the "Issue Analysis" section, the "Suggested Fixes" section if
\* (includeFix), and return investigation
ReturnInvestigation ==
  /\ inv.pc = "analysis"
  /\ inv' = [inv EXCEPT !.pc = "returned",
                        !.result = "report",
                        !.report = Append(@, Headings[4])
                                     \o (IF inv.includeFix THEN <<Headings[5]>> ELSE <<>>)]
  /\ UNCHANGED <<traceVars, ctx, scan, sentry, ex, tool>>

\* The text of extractStackTrace has a line "  at fn (file:line)" for every
\* frame, which the generic pattern matches at the least: the "Could not
\* parse" return of analyzeStackTrace is not among the steps.
NextInvestigate ==
  \/ NotConfigured
  \/ BeginLookup
  \/ ListProjects
  \/ SearchProject
  \/ ShortIdNotFound
  \/ FetchIssue
  \/ DetailsFetched
  \/ LatestFetched
  \/ FetchFailed
  \/ ExtractTrace
  \/ ParseStep
  \/ BeginAnalysis
  \/ AnalyzeFrame
  \/ ReturnAnalysis
  \/ TraceAnalyzed
  \/ RelevantFiles
  \/ ReturnInvestigation

SpecInvestigate ==
  InitInvestigate /\ [][NextInvestigate]_vars

\* ------------------------------------------------------------------------
\* JiraService
\* ------------------------------------------------------------------------
\* process.env.JIRA_URL, JIRA_EMAIL and JIRA_API_TOKEN
JiraUrls ==
  {Undefined, <<"">>, <<"/">>, <<"https://jira.example">>, <<"https://jira.example/">>}

JiraCredentials ==
  {Undefined, <<"">>, <<"secret">>}

\* jiraUrl.endsWith('/') ? jiraUrl.slice(0, -1) : jiraUrl
WithoutTrailingSlash(url) ==
  IF url = "/" THEN ""
  ELSE IF url = "https://jira.example/" THEN "https://jira.example"
  ELSE url

\* a new JiraService: client = null, baseUrl = null
NewJira ==
  [client |-> "null", baseUrl |-> "null"]

\* JiraService.configureFromEnv
jiraConfigureFromEnv(jira0, jiraUrl, jiraEmail, jiraApiToken) ==
  IF Truthy(jiraUrl) /\ Truthy(jiraEmail) /\ Truthy(jiraApiToken)
  THEN [jira0 EXCEPT !.client = "AxiosInstance", !.baseUrl = WithoutTrailingSlash(jiraUrl[1])]
  ELSE jira0

\* JiraService.isConfigured
jiraIsConfigured(jira0) ==
  jira0.client # "null" /\ jira0.baseUrl # "null"

\* JiraService.getTicketUrl: throws (Null) without a base URL
getTicketUrl(jira0, ticketKey) ==
  IF jira0.baseUrl \in {"null", ""} THEN Null
  ELSE <<jira0.baseUrl, "/browse/", ticketKey>>

\* the key of the ticket the POST creates
TicketKey ==
  "ATS-7"

\* ------------------------------------------------------------------------
\* The server: the CallTool handler, createJiraTicket, createJiraFromSentry
\* ------------------------------------------------------------------------
\* the cases of the switch, in the handler with the Jira tools and in the
\* handler without them
ToolCases ==
  <<{"get_sentry_issues", "investigate_issue", "analyze_stack_trace", "get_jira_boards",
     "create_jira_ticket", "get_issue_types", "create_jira_from_sentry"},
    {"get_sentry_issues", "investigate_issue", "analyze_stack_trace"}>>

JiraTicketTools ==
  {"create_jira_ticket", "create_jira_from_sentry"}

\* the names of the tool calls
CalledNames ==
  ToolCases[1] \cup {"delete_issue", "Get_Sentry_Issues", ""}

\* new McpError(ErrorCode.MethodNotFound, `Unknown tool: ${name}`)
UnknownTool ==
  [kind |-> "error", code |-> "MethodNotFound", text |-> "Unknown tool", ticket |-> Null,
   warning |-> FALSE]

\* the catch of the handler: whatever was thrown in the switch is thrown
\* again as McpError(ErrorCode.InternalError, `Error executing tool ...`)
Caught(error) ==
  [error EXCEPT !.code = "InternalError"]

\* { content: [{ type: 'text', text }] }
TextResult(text, ticket, warning) ==
  [kind |-> "result", code |-> "none", text |-> text, ticket |-> ticket, warning |-> warning]

NoResponse ==
  [kind |-> "none", code |-> "none", text |-> "", ticket |-> Null, warning |-> FALSE]

\* a request of the handler numbered version, with the services as the
\* constructor made them
ToolCall(version, name, jira0, sentryIssueId) ==
  [pc |-> "called", version |-> version, name |-> name, jira |-> jira0,
   sentryIssueId |-> sentryIssueId, ticket |-> Null, ticketUrl |-> Null, effects |-> <<>>,
   linkingResults |-> <<>>, response |-> NoResponse]

InitTools ==
  /\ IdleTrace
  /\ ctx = IdleCtx
  /\ scan = IdleScan
  /\ ex = IdleEx
  /\ inv = [pc |-> "idle"]
  /\ \E authToken \in EnvTokens : \E organization \in {Undefined, <<"acme">>} :
       sentry = Constructed(IdleCall, authToken, organization)
  /\ \E version \in DOMAIN ToolCases : \E name \in CalledNames :
     \E jiraUrl \in JiraUrls : \E jiraEmail, jiraApiToken \in JiraCredentials :
     \E sentryIssueId \in {Undefined, <<WebIssues[1].id>>} :
       tool = ToolCall(version, name,
                       jiraConfigureFromEnv(NewJira, jiraUrl, jiraEmail, jiraApiToken),
                       sentryIssueId)

\* a call of a service, with whether it fulfilled
Effect(op, ok) ==
  [op |-> op, ok |-> ok]

\* default: throw new McpError(MethodNotFound), caught by the handler
UnknownToolCalled ==
  /\ tool.pc = "called"
  /\ tool.name \notin ToolCases[tool.version]
  /\ tool' = [tool EXCEPT !.pc = "returned", !.response = Caught(UnknownTool)]
  /\ UNCHANGED <<traceVars, ctx, scan, sentry, ex, inv>>

\* the cases of the tools that create no ticket: getSentryIssues throws what
\* getIssues throws, the other four return a text
OtherToolCalled ==
  /\ tool.pc = "called"
  /\ tool.name \in ToolCases[tool.version] \ JiraTicketTools
  /\ \E ok \in BOOLEAN :
       LET fulfilled == tool.name = "get_sentry_issues" => (isConfigured(sentry) /\ ok)
       IN tool' = [tool EXCEPT
                     !.pc = "returned",
                     !.effects = Append(@, Effect(tool.name, fulfilled)),
                     !.response = IF fulfilled THEN TextResult("text", Null, FALSE)
                                  ELSE Caught([UnknownTool EXCEPT !.code = "Error",
                                                                  !.text = "thrown"])]
  /\ UNCHANGED <<traceVars, ctx, scan, sentry, ex, inv>>

\* createJiraFromSentry needs both services, createJiraTicket needs Jira
ServicesConfigured ==
  /\ jiraIsConfigured(tool.jira)
  /\ tool.name = "create_jira_from_sentry" => isConfigured(sentry)

\* if (!isConfigured()) return { ... 'is not configured' ... }
NotConfiguredReturned ==
  /\ tool.pc = "called"
  /\ tool.name \in ToolCases[tool.version] \cap JiraTicketTools
  /\ ~ServicesConfigured
  /\ tool' = [tool EXCEPT !.pc = "returned",
                          !.response = TextResult("not configured", Null, FALSE)]
  /\ UNCHANGED <<traceVars, ctx, scan, sentry, ex, inv>>

\* the outer catch: return { ... `Error creating Jira ticket: ...` }
ErrorCreating(tool0) ==
  [tool0 EXCEPT !.pc = "returned", !.response = TextResult("Error creating", Null, FALSE)]

\* createJiraFromSentry: getIssueDetails and getLatestEvent, then the
\* summary, the description and the labels
SentryIssueFetched ==
  /\ tool.pc = "called"
  /\ tool.name = "create_jira_from_sentry"
  /\ tool.name \in ToolCases[tool.version]
  /\ ServicesConfigured
  /\ \E ok \in BOOLEAN :
       tool' = IF ok THEN [tool EXCEPT !.pc = "create",
                                       !.effects = Append(@, Effect("getIssueDetails", TRUE))]
               ELSE ErrorCreating([tool EXCEPT !.effects = Append(@, Effect("getIssueDetails", FALSE))])
  /\ UNCHANGED <<traceVars, ctx, scan, sentry, ex, inv>>

\* createJiraFromSentry links always; createJiraTicket links
\* if (args.sentry_issue_id && this.sentryService.isConfigured())
LinksBack(tool0) ==
  \/ tool0.name = "create_jira_from_sentry"
  \/ tool0.sentryIssueId # Undefined /\ isConfigured(sentry)

\* the ticket is there: const ticketUrl = getTicketUrl(ticket.key), and on to
\* the link or to the response
TicketCreated(tool0, url) ==
  IF url = Null THEN ErrorCreating([tool0 EXCEPT !.ticket = <<TicketKey>>])
  ELSE [tool0 EXCEPT !.ticket = <<TicketKey>>, !.ticketUrl = url,
                     !.pc = IF LinksBack(tool0) THEN "link" ELSE "respond"]

\* jiraService.createTicket: the board request and the POST of the issue; a
\* request with an empty base URL has no host to go to
createTicket ==
  /\ \/ tool.pc = "create"
     \/ /\ tool.pc = "called"
        /\ tool.name = "create_jira_ticket"
        /\ tool.name \in ToolCases[tool.version]
        /\ ServicesConfigured
  /\ \E boardFound, posted \in BOOLEAN :
       LET created == boardFound /\ posted /\ tool.jira.baseUrl # ""
           called == [tool EXCEPT !.effects = Append(@, Effect("createTicket", created))]
       IN tool' = IF created THEN TicketCreated(called, getTicketUrl(tool.jira, TicketKey))
                  ELSE ErrorCreating(called)
  /\ UNCHANGED <<traceVars, ctx, scan, sentry, ex, inv>>

\* the link failure thrown on to the outer catch
LinkFailedIsError(tool0) ==
  ErrorCreating(tool0)

\* catch (linkError) { linkingResults.push('Created Jira ticket but failed
\* to link to Sentry: ...') }
LinkFailed(tool0) ==
  [tool0 EXCEPT !.pc = "respond", !.linkingResults = Append(@, "warning")]

\* what awaiting sentryService.linkExternalIssue and addIssueNote can give:
\* fulfilled (TRUE) or rejected (FALSE)
linkExternalIssue ==
  BOOLEAN

addIssueNote ==
  BOOLEAN

\* await this.sentryService.linkExternalIssue(...)
LinkToSentry ==
  /\ tool.pc = "link"
  /\ \E ok \in linkExternalIssue :
       LET called == [tool EXCEPT !.effects = Append(@, Effect("linkExternalIssue", ok))]
       IN tool' = IF ok THEN [called EXCEPT !.pc = "note",
                                            !.linkingResults = Append(@, "linked")]
                  ELSE LinkFailed(called)
  /\ UNCHANGED <<traceVars, ctx, scan, sentry, ex, inv>>

\* await this.sentryService.addIssueNote(...)
NoteToSentry ==
  /\ tool.pc = "note"
  /\ \E ok \in addIssueNote :
       LET called == [tool EXCEPT !.effects = Append(@, Effect("addIssueNote", ok))]
       IN tool' = IF ok THEN [called EXCEPT !.pc = "respond",
                                            !.linkingResults = Append(@, "noted")]
                  ELSE LinkFailed(called)
  /\ UNCHANGED <<traceVars, ctx, scan, sentry, ex, inv>>

\* return { ... 'Jira Ticket Created' ... ticket.key ... linkingResults ... }
TicketReported ==
  /\ tool.pc = "respond"
  /\ tool' = [tool EXCEPT
                !.pc = "returned",
                !.response = TextResult("Jira Ticket Created", tool.ticket,
                                        \E i \in 1..Len(tool.linkingResults) :
                                          tool.linkingResults[i] = "warning")]
  /\ UNCHANGED <<traceVars, ctx, scan, sentry, ex, inv>>

NextTools ==
  \/ UnknownToolCalled
  \/ OtherToolCalled
  \/ NotConfiguredReturned
  \/ SentryIssueFetched
  \/ createTicket
  \/ LinkToSentry
  \/ NoteToSentry
  \/ TicketReported

SpecTools ==
  InitTools /\ [][NextTools]_vars

\* ------------------------------------------------------------------------
\* Properties
\* ------------------------------------------------------------------------
\* the number a text of decimal digits writes
RECURSIVE NumberWritten(_)
NumberWritten(ds) ==
  IF ds = <<>> THEN 0
  ELSE 10 * NumberWritten(SubSeq(ds, 1, Len(ds) - 1)) + DigitValue(ds[Len(ds)])

Separators ==
  {"/", "\\"}

\* the final component of a path: what follows its last separator
LastComponent(P) ==
  LET seps == {i \in 1..Len(P) : P[i] \in Separators}
  IN IF seps = {} THEN P
     ELSE SubSeq(P, (CHOOSE i \in seps : \A j \in seps : i >= j) + 1, Len(P))

\* the line frame k was parsed from
LineOf(k) ==
  TraceLines[origin[k].line]

\* the frame parse is expected to yield for a line in one of the seven
\* formats: the fields as written, no column unless given
Written(P, L, F, col) ==
  [filename |-> LastComponent(P), function |-> F, line |-> NumberWritten(L), column |-> col]

\* frame fr has the function, line and column written in line l
FieldsAsWritten(l, fr) ==
  \A P \in Paths : \A L \in LineNums : \A F \in Funcs :
    LET same(w) == fr.function = w.function /\ fr.line = w.line /\ fr.column = w.column
    IN /\ l = FromLine(P, L, F) => same(Written(P, L, F, Undefined))
       /\ l = FrameLine(P, L, F) => same(Written(P, L, F, Undefined))
       /\ (P \in RbPaths /\ l = BareLine(P, L)) => same(Written(P, L, UnknownFunction, Undefined))
       /\ \A C \in Cols :
            l = CallSiteLine(F, P, L, C) => same(Written(P, L, F, <<NumberWritten(C)>>))
       /\ l = QuotedLine(P, L, F) => same(Written(P, L, F, Undefined))
       /\ l = JavaLine(F, P, L) => same(Written(P, L, F, Undefined))
       /\ l = GenericLine(F, P, L) => same(Written(P, L, F, Undefined))

\* the path written in line l, when l is in one of the seven formats
PathsWritten(l) ==
  {P \in Paths : \E L \in LineNums : \E F \in Funcs :
     \/ l \in {FromLine(P, L, F), FrameLine(P, L, F), QuotedLine(P, L, F),
               JavaLine(F, P, L), GenericLine(F, P, L)}
     \/ P \in RbPaths /\ l = BareLine(P, L)
     \/ \E C \in Cols : l = CallSiteLine(F, P, L, C)}

\* the lines the loop of parseStackTrace has gone through
LinesDone ==
  1..(lineNo - 1)

\* C1: analyzing the one-line example trace against a root that holds
\* app/services/user_service.rb with at least 25 lines yields the one frame
\* {user_service.rb, get_user_data, 25} and a context window that holds line
\* 25 as its target, not the file-not-found outcome.
C1_ExampleResolved ==
  (/\ pc = "done"
   /\ stackTrace = ExampleTrace
   /\ fs[ExamplePath] \in FileIds
   /\ Len(Split(FileContent[fs[ExamplePath]], "\n")) >= 25)
  => /\ frames = <<[filename |-> <<"u", "s", "e", "r", "_", "s", "e", "r", "v", "i", "c", "e", ".", "r", "b">>, function |-> <<"g", "e", "t", "_", "u", "s", "e", "r", "_", "d", "a", "t", "a">>,
                    line |-> 25, column |-> Undefined]>>
     /\ Len(blocks) = 1
     /\ blocks[1].kind = "context"
     /\ blocks[1].window # <<>>
     /\ \E j \in 1..Len(blocks[1].window) :
          blocks[1].window[j].lineNumber = 25 /\ blocks[1].window[j].context = "target"

\* the three candidates of a file name, in the order of the claim
Candidates(name) ==
  <<name, <<"s", "r", "c", "/">> \o name, <<"a", "p", "p", "/">> \o name>>

\* the candidates of frame k that exist as readable files, by position
Existing(k) ==
  {j \in 1..3 : ReadFile(Candidates(frames[k].filename)[j]) \in FileIds}

FirstExisting(k) ==
  CHOOSE j \in Existing(k) : \A j2 \in Existing(k) : j <= j2

\* C2: resolution uses the first existing candidate among root/filename,
\* root/src/filename, root/app/filename, and yields the not-found outcome
\* exactly when none of the three exists.
C2_FirstExistingCandidate ==
  \A k \in 1..Len(blocks) :
    /\ blocks[k].kind = "notfound" <=> Existing(k) = {}
    /\ Existing(k) # {} =>
         blocks[k].path = Candidates(frames[k].filename)[FirstExisting(k)]

\* the number of lines of the file found for frame k
FoundLineCount(k) ==
  Len(Split(FileContent[ReadFile(Candidates(frames[k].filename)[FirstExisting(k)])], "\n"))

\* C3: when a frame's file is found and readable but the frame's line is
\* outside [1, lineCount], the frame's outcome is "no context available",
\* distinct from file-not-found, and it has no context window.
C3_NoContextOutcome ==
  \A k \in 1..Len(blocks) :
    (/\ Existing(k) # {}
     /\ frames[k].line \notin 1..FoundLineCount(k))
    => /\ blocks[k].kind = "nocontext"
       /\ blocks[k].window = <<>>

\* C4: a line in any of the seven formats yields a frame with the line
\* number and the function written in it (the unknown sentinel for the bare
\* form), and with a column exactly for the bracketed call-site form.
C4_FormatFields ==
  /\ \A i \in LinesDone :
       TraceLines[i] \in FormatLines => \E k \in 1..Len(origin) : origin[k].line = i
  /\ \A k \in 1..Len(frames) : FieldsAsWritten(LineOf(k), frames[k])

\* C5: every frame's filename holds no path separator and is the final
\* component of the path written in its line.
C5_FilenameIsLastComponent ==
  \A k \in 1..Len(frames) :
    /\ \A i \in 1..Len(frames[k].filename) : frames[k].filename[i] \notin Separators
    /\ \A P \in PathsWritten(LineOf(k)) : frames[k].filename = LastComponent(P)

\* C6: parse emits at most one frame per input line, and the frames are in
\* the order of the lines they were parsed from.
C6_FramesInLineOrder ==
  /\ Len(frames) = Len(origin)
  /\ Len(frames) <= Len(TraceLines)
  /\ \A k \in 1..Len(frames) :
       /\ origin[k].line \in LinesDone
       /\ frames[k] = ParseLine(LineOf(k)).frame
       /\ \A j \in 1..(k - 1) : origin[j].line < origin[k].line

C6_Witness ==
  /\ pc = "done"
  /\ Len(TraceLines) = 3
  /\ Len(frames) = 2
  /\ origin[1].line = 1
  /\ origin[2].line = 3
  /\ frames[1] # frames[2]

\* the recognizers in the order of the claim
RecognizerOrder ==
  <<FromPattern, FramePattern, BarePattern, CallSitePattern, QuotedPattern, JavaPattern,
    GenericPattern>>

\* the recognizers that match a line, by position
MatchingOf(l) ==
  {j \in 1..Len(RecognizerOrder) : Exec(RecognizerOrder[j].re, l).ok}

\* the same for the lines of the inputs, computed once
MatchingInputLine ==
  [l \in InputLines |-> MatchingOf(l)] @@ <<>>

Matching(l) ==
  IF l \in InputLines THEN MatchingInputLine[l] ELSE MatchingOf(l)

\* C7: the frame of a line comes from the earliest recognizer that matches it
\* in the order from, frame, bare, bracketed call-site, quoted-path,
\* unbracketed call-site, generic; a line no recognizer matches gives no frame.
C7_FirstMatchWins ==
  /\ \A k \in 1..Len(frames) :
       LET m == Matching(LineOf(k))
           first == CHOOSE j \in m : \A j2 \in m : j <= j2
       IN /\ m # {}
          /\ origin[k].pat = first
          /\ patterns[origin[k].pat] = RecognizerOrder[first]
          /\ frames[k].function = UnknownFunction <=> first = 3
          /\ frames[k].column # Undefined <=> first = 4
  /\ \A i \in LinesDone :
       Matching(TraceLines[i]) = {} => \A k \in 1..Len(origin) : origin[k].line # i

C7_Witness ==
  /\ Len(frames) >= 1
  /\ origin[1].pat = 3
  /\ Cardinality(Matching(LineOf(1))) >= 2

\* C8: when no line of the input matches any recognizer, parse returns no
\* frame and analyzeStackTrace returns the "could not parse" outcome, having
\* read no file and built no context block.
C8_CouldNotParse ==
  /\ (\A i \in 1..Len(TraceLines) : Matching(TraceLines[i]) = {}) =>
       /\ frames = <<>>
       /\ reads = <<>>
       /\ blocks = <<>>
       /\ pc = "done" => outcome = "could_not_parse"
  /\ outcome = "could_not_parse" => frames = <<>> /\ reads = <<>>

C8_Witness ==
  /\ pc = "done"
  /\ outcome = "could_not_parse"
  /\ Len(TraceLines) = 2
  /\ \E p \in FsPaths : fs[p] \in FileIds

\* C9: for a target line inside the file, the context window is the run of
\* line numbers from max(1, target - r) to min(lineCount, target + r); it
\* holds the target, and has min(lineCount, 2r + 1) lines when the target is
\* at least r lines from both ends of the file.
C9_WindowBounds ==
  ctx.pc \in {"windowed", "done"} =>
    LET n == Len(ctx.lines)
        target == ctx.target + 1
        r == ctx.radius
        w == ctx.window
        first == w[1].lineNumber
        last == w[Len(w)].lineNumber
    IN /\ Len(w) >= 1
       /\ \A j \in 1..Len(w) :
            /\ w[j].lineNumber = first + j - 1
            /\ w[j].content = ctx.lines[w[j].lineNumber]
            /\ w[j].context = "target" <=> w[j].lineNumber = target
       /\ first = Max2(1, target - r)
       /\ last = Min2(n, target + r)
       /\ 1 <= first /\ first <= target /\ target <= last /\ last <= n
       /\ (target - r >= 1 /\ target + r <= n) => Len(w) = Min2(n, 2 * r + 1)

C9_Witness ==
  /\ ctx.pc = "done"
  /\ ctx.radius = 3
  /\ Len(ctx.lines) = 9
  /\ ctx.target = 4
  /\ Len(ctx.window) = 7

\* the declaration name the heuristic captures on a line, Null when none
DeclOf(l) ==
  DeclFrom(Trim(l), 1)

\* C10 as stated: a recognized declaration directly above the target line
\* gives that declaration's name, and a target at index 0 gives unknown.
C10_DeclarationAbove ==
  ctx.pc = "done" =>
    /\ (ctx.target >= 1 /\ DeclOf(ctx.lines[ctx.target]) # Null) =>
         ctx.function = DeclOf(ctx.lines[ctx.target])
    /\ ctx.target = 0 => ctx.function = Null

\* C10 amended: a recognized declaration directly above the target line gives
\* that declaration's name when the target line itself matches no
\* declaration recognizer; a target at index 0 gives the name captured on
\* that line, unknown when it matches no recognizer.
C10_DeclarationAboveUnlessTarget ==
  ctx.pc = "done" =>
    /\ (/\ ctx.target >= 1
        /\ DeclOf(ctx.lines[ctx.target]) # Null
        /\ DeclOf(ctx.lines[ctx.target + 1]) = Null)
       => ctx.function = DeclOf(ctx.lines[ctx.target])
    /\ ctx.target = 0 => ctx.function = DeclOf(ctx.lines[1])

C10_Witness ==
  /\ ctx.pc = "done"
  /\ ctx.target >= 1
  /\ DeclOf(ctx.lines[ctx.target]) # Null
  /\ DeclOf(ctx.lines[ctx.target + 1]) = Null
  /\ ctx.function = DeclOf(ctx.lines[ctx.target])

\* ------------------------------------------------------------------------
\* Claims C11 and C18 (analyzeStackTrace and parseStackTrace)
\* ------------------------------------------------------------------------
\* the window of block k marks the frame's own line as its target
HasOwnContext(k) ==
  /\ blocks[k].kind = "context"
  /\ \E j \in 1..Len(blocks[k].window) :
       /\ blocks[k].window[j].lineNumber = frames[k].line
       /\ blocks[k].window[j].context = "target"

\* C11: in a trace with several frames, a frame whose file exists at none of
\* the candidate paths, or whose candidates cannot be read, gets the
\* not-found marker and raises nothing, while every other analyzed frame is
\* resolved and gets its own code context, in the original frame order.
C11_OtherFramesResolved ==
  /\ \A k \in 1..Len(blocks) :
       /\ blocks[k].filename = frames[k].filename
       /\ blocks[k].line = frames[k].line
       /\ Existing(k) = {} => blocks[k].kind = "notfound"
       /\ Existing(k) # {} => HasOwnContext(k)
  /\ (pc = "done" /\ Len(frames) > 0) =>
       /\ outcome = "analysis"
       /\ Len(blocks) = Min2(Len(frames), FrameCap)

\* C18: every frame returned by parse has an integer line number that is at
\* least 1.
C18_LineAtLeastOne ==
  \A k \in 1..Len(frames) : frames[k].line >= 1

\* ------------------------------------------------------------------------
\* Claims C12 to C16 (analyzeCodebase)
\* ------------------------------------------------------------------------
\* the file name at the end of p has an extension of the two glob patterns
AllowListed(p) ==
  \E e \in PrimaryExtensions \cup SecondaryExtensions : EndsWith(p[Len(p)], <<".">> \o e)

\* the rules of the .gitignore of the root of call c, or none
OwnRules(c) ==
  LoadedPatterns(scan.calls[c].root)

IgnoredByOwnRoot(c, p) ==
  OwnRules(c) # NoPatterns /\ Ignores(OwnRules(c), p)

Returned(c) ==
  scan.calls[c].pc = "done"

\* C12: analyzeCodebase returns at most 50 analyses, each of a file that
\* matches the extension allow-list and is not excluded by the ignore rules
\* of the root.
C12_CappedAllowListedNotIgnored ==
  \A c \in 1..Len(scan.calls) :
    Returned(c) =>
      /\ Len(scan.calls[c].analyses) <= FileCap
      /\ \A k \in 1..Len(scan.calls[c].analyses) :
           /\ AllowListed(scan.calls[c].analyses[k].path)
           /\ ~IgnoredByOwnRoot(c, scan.calls[c].analyses[k].path)

ExcludedDirectories ==
  {<<"n", "o", "d", "e", "_", "m", "o", "d", "u", "l", "e", "s">>, <<"d", "i", "s", "t">>, <<"b", "u", "i", "l", "d">>, <<".", "g", "i", "t">>, <<"v", "e", "n", "d", "o", "r">>, <<"t", "m", "p">>}

\* C13: no file under the root's node_modules, dist, build, .git, vendor or
\* tmp directory is in the result of analyzeCodebase.
C13_NoExcludedDirectory ==
  \A c \in 1..Len(scan.calls) :
    Returned(c) =>
      \A k \in 1..Len(scan.calls[c].analyses) :
        ~(/\ Len(scan.calls[c].analyses[k].path) > 1
          /\ scan.calls[c].analyses[k].path[1] \in ExcludedDirectories)

\* the files the loop of call c goes over: filteredFiles.slice(0, 50)
Selected(c) ==
  SubSeq(scan.calls[c].files, 1, Min2(Len(scan.calls[c].files), FileCap))

ReadableAt(c, p) ==
  Readable(EntryAt(scan.calls[c].root, p))

\* C14: a read or analysis failure on one enumerated file never aborts the
\* scan and never raises: the failing file is skipped and every readable
\* file among those selected is in the result.
C14_BadFileSkipped ==
  \A c \in 1..Len(scan.calls) :
    /\ scan.calls[c].pc # "failed"
    /\ Returned(c) =>
         [k \in 1..Len(scan.calls[c].analyses) |-> scan.calls[c].analyses[k].path]
           = SelectSeq(Selected(c), LAMBDA p : ReadableAt(c, p))

C14_Witness ==
  \E c \in 1..Len(scan.calls) :
    /\ Returned(c)
    /\ \E i \in 1..Len(Selected(c)) :
         /\ ~ReadableAt(c, Selected(c)[i])
         /\ \E j \in (i + 1)..Len(Selected(c)) :
              /\ ReadableAt(c, Selected(c)[j])
              /\ \E k \in 1..Len(scan.calls[c].analyses) :
                   scan.calls[c].analyses[k].path = Selected(c)[j]

\* C15: when two calls interleave, each scan is filtered by the ignore rules
\* of its own root (that root's .gitignore, or none), never by the rules the
\* other scan loaded.
C15_OwnRulesAtFilter ==
  \A c \in 1..Len(scan.calls) :
    scan.calls[c].pc \in {"analyze", "done"} => scan.calls[c].used = OwnRules(c)

\* C16: for a root without readable .gitignore analyzeCodebase applies no
\* ignore-rule exclusion and raises no error, also when the analyzer scanned
\* a root with a .gitignore before.
C16_NoGitignoreNoExclusions ==
  \A c \in 1..Len(scan.calls) :
    ScanRoots[scan.calls[c].root].gitignore = NoGitignore =>
      /\ scan.calls[c].pc # "failed"
      /\ scan.calls[c].pc \in {"analyze", "done"} =>
           scan.calls[c].files = glob(ScanRoots[scan.calls[c].root].entries)

\* ------------------------------------------------------------------------
\* Claim C17 (extractFunctions and extractImports)
\* ------------------------------------------------------------------------
NoDuplicates(xs) ==
  \A i, j \in 1..Len(xs) : i # j => xs[i] # xs[j]

FirstIndex(xs, x) ==
  CHOOSE i \in 1..Len(xs) : xs[i] = x /\ \A j \in 1..(i - 1) : xs[j] # x

\* xs holds the values of pushed, each value where it was pushed first
FirstSeenOrder(xs, pushed) ==
  /\ {xs[i] : i \in 1..Len(xs)} = {pushed[i] : i \in 1..Len(pushed)}
  /\ \A a, b \in 1..Len(xs) : a < b => FirstIndex(pushed, xs[a]) < FirstIndex(pushed, xs[b])

ContentPushedFunctions ==
  PushedFunctions(Split(ex.content, "\n"))

ContentPushedImports ==
  PushedImports(Split(ex.content, "\n"))

\* C17: the functions list and the imports list of analyzeFile hold no
\* duplicates, keep the names in first-seen order, and two analyses of the
\* same content give the same lists.
C17_UniqueFirstSeen ==
  \A n \in 1..Len(ex.results) :
    /\ NoDuplicates(ex.results[n].functions)
    /\ NoDuplicates(ex.results[n].imports)
    /\ FirstSeenOrder(ex.results[n].functions, ContentPushedFunctions)
    /\ FirstSeenOrder(ex.results[n].imports, ContentPushedImports)
    /\ ex.results[n].functions = ex.results[1].functions
    /\ ex.results[n].imports = ex.results[1].imports

C17_Witness ==
  /\ Len(ex.results) = 2
  /\ Len(ex.results[2].functions) >= 2
  /\ Len(ContentPushedFunctions) > Len(ex.results[2].functions)
  /\ Len(ContentPushedImports) > Len(ex.results[2].imports)

\* ------------------------------------------------------------------------
\* Claims C19 and C20 (SentryService)
\* ------------------------------------------------------------------------
\* the issues of the projects of the organization whose issues can be listed
ListedIssues(org) ==
  UNION {{Organizations[org][p].issues[i] : i \in 1..Len(Organizations[org][p].issues)} :
           p \in {q \in 1..Len(Organizations[org]) : Organizations[org][q].ok}}

LookupEnded ==
  /\ sentry.op \in {"getIssueDetails", "getLatestEvent"}
  /\ isConfigured(sentry)
  /\ sentry.pc \in {"done", "failed"}

\* C19: for every issue that exists in a project of the organization,
\* getIssueDetails and getLatestEvent called with its short ID resolve it to
\* its full ID and fetch that issue; an ID without a dash is never treated
\* as a short ID and is used verbatim.
C19_ShortIdResolved ==
  LookupEnded =>
    /\ \A m \in ListedIssues(sentry.organization) :
         m.shortId = sentry.issueId =>
           /\ sentry.pc = "done"
           /\ sentry.resolved = m.id
           /\ sentry.result = m.id
    /\ (\A i \in 1..Len(sentry.issueId) : sentry.issueId[i] # "-") =>
         /\ sentry.resolved = <<>>
         /\ sentry.requested = sentry.issueId

\* C20: the limit getIssues forwards is 10 when none is requested, the
\* requested limit when it is between 1 and 100, 100 when it is greater, and
\* never more than 100.
C20_ForwardedLimit ==
  (sentry.op = "getIssues" /\ sentry.pc = "done") =>
    /\ sentry.limit = Undefined => sentry.forwarded = 10
    /\ (sentry.limit # Undefined /\ sentry.limit[1] \in 1..100) =>
         sentry.forwarded = sentry.limit[1]
    /\ (sentry.limit # Undefined /\ sentry.limit[1] > 100) => sentry.forwarded = 100
    /\ sentry.forwarded <= 100

C20_Witness ==
  /\ sentry.op = "getIssues"
  /\ sentry.pc = "done"
  /\ sentry.limit = <<250>>
  /\ sentry.forwarded = 100

\* ------------------------------------------------------------------------
\* Claim C21 (SentryService: configuration)
\* ------------------------------------------------------------------------
\* both variables were set (to a text that is not empty) at construction
BothSet ==
  /\ Truthy(sentry.env.SENTRY_AUTH_TOKEN)
  /\ Truthy(sentry.env.SENTRY_ORGANIZATION)

\* C21: the service is configured exactly when SENTRY_AUTH_TOKEN and
\* SENTRY_ORGANIZATION were both set at construction, in every state of every
\* operation; while it is not configured an operation that has started has
\* failed with the "not configured" error and has issued no HTTP request.
C21_ConfiguredIffBothSet ==
  sentry.op # "none" =>
    /\ isConfigured(sentry) <=> BothSet
    /\ (~isConfigured(sentry) /\ sentry.pc # "idle") =>
         /\ sentry.pc = "failed"
         /\ sentry.error = "not configured"
         /\ sentry.requests = 0

C21_Witness ==
  /\ sentry.op = "getIssueEvents"
  /\ sentry.env.SENTRY_AUTH_TOKEN = <<"token">>
  /\ sentry.env.SENTRY_ORGANIZATION = Undefined
  /\ sentry.pc = "failed"
  /\ sentry.error = "not configured"
  /\ sentry.requests = 0

\* ------------------------------------------------------------------------
\* Claim C22 (findContainingFunction)
\* ------------------------------------------------------------------------
\* for each line of the files, the recognizers that match it once trimmed and
\* the name each of them captures
RecognizedOnLine ==
  [l \in SourceLines |->
     {[k |-> k, name |-> Group(Trim(l), Exec(DeclPatterns[k], Trim(l)), 1)] :
        k \in {j \in 1..Len(DeclPatterns) : Exec(DeclPatterns[j], Trim(l)).ok}}] @@ <<>>

\* the 0-based indexes at or above the target whose line matches a recognizer
DeclarationIndexes ==
  {i \in 0..ctx.target : RecognizedOnLine[ctx.lines[i + 1]] # {}}

NearestDeclaration ==
  CHOOSE i \in DeclarationIndexes : \A j \in DeclarationIndexes : j <= i

\* the capture of the first recognizer, in list order, that matches line i
FirstRecognized(i) ==
  (CHOOSE m \in RecognizedOnLine[ctx.lines[i + 1]] :
     \A o \in RecognizedOnLine[ctx.lines[i + 1]] : m.k <= o.k).name

\* C22: the containing function is the name captured by the first matching
\* recognizer, in list order, on the nearest line at or above the target
\* that matches any recognizer; when no line from the target up to the top of
\* the file matches, the result is unknown.
C22_NearestDeclaration ==
  ctx.pc = "done" =>
    IF DeclarationIndexes = {} THEN ctx.function = Null
    ELSE ctx.function = <<FirstRecognized(NearestDeclaration)>>

\* a declaration two lines above the target, matched by several recognizers
\* that capture different names, and an earlier declaration above it
C22_Witness ==
  /\ ctx.pc = "done"
  /\ ctx.target = 2
  /\ ctx.lines = <<<<"d", "e", "f", " ", "f">>, <<"d", "e", "f", " ", "s", "e", "l", "f", ".", "g", "(", "x", ")">>, <<" ", " ", "y", " ", "=", " ", "1">>>>
  /\ ctx.function = <<<<"g">>>>
  /\ \E m \in RecognizedOnLine[ctx.lines[2]] : m.name = <<"s", "e", "l", "f">>

\* ------------------------------------------------------------------------
\* Claim C23 (analyzeCodebase: the cap)
\* ------------------------------------------------------------------------
\* the enumeration of the root of call c without the files that the ignore
\* rules of that root exclude, in enumeration order
OwnFiltered(c) ==
  SelectSeq(glob(ScanRoots[scan.calls[c].root].entries), LAMBDA p : ~IgnoredByOwnRoot(c, p))

FirstFifty(files) ==
  SubSeq(files, 1, Min2(Len(files), FileCap))

IsPrefix(a, b) ==
  Len(a) <= Len(b) /\ a = SubSeq(b, 1, Len(a))

\* C23: the files analyzeCodebase reads are the first 50 entries of the
\* enumeration after ignore-rule filtering, in enumeration order: at every
\* point the files read so far are a prefix of that list, and a returned
\* scan has read exactly that list (so an ignored file is neither read nor
\* counted, and no file after position 50 is read).
C23_FirstFiftyAfterFiltering ==
  \A c \in 1..Len(scan.calls) :
    /\ IsPrefix(scan.calls[c].read, FirstFifty(OwnFiltered(c)))
    /\ Returned(c) => scan.calls[c].read = FirstFifty(OwnFiltered(c))


\* ------------------------------------------------------------------------
\* Claim C24 (parseStackTrace: line numbers of 0 and with a minus sign)
\* ------------------------------------------------------------------------
\* the lines of the trace in one of the seven formats whose line number is
\* written as L
WrittenWith(L) ==
  {i \in 1..Len(TraceLines) : TraceLines[i] \in ZeroAndSignedLines(L)}

\* line i of the trace gave a frame that carries the line number n
YieldsFrameWithLine(i, n) ==
  \E k \in 1..Len(frames) : origin[k].line = i /\ frames[k].line = n

ParseEnded ==
  pc # "parse" \/ lineNo > Len(TraceLines)

\* C24 as stated: a trace line in a recognized format whose line number is
\* written as 0 or as a negative number yields a frame that carries that
\* number.
C24_ZeroOrNegativeKept ==
  ParseEnded =>
    /\ \A i \in WrittenWith(<<"0">>) : YieldsFrameWithLine(i, 0)
    /\ \A i \in WrittenWith(<<"-", "5">>) : YieldsFrameWithLine(i, 0 - 5)

\* C24 amended: a trace line in a recognized format whose line number is
\* written as 0 yields a frame that carries line number 0; a number written
\* with a minus sign is not read as a line number, and no frame carries a
\* negative line number.
C24_ZeroKeptSignNotRead ==
  /\ ParseEnded =>
       /\ \A i \in WrittenWith(<<"0">>) : YieldsFrameWithLine(i, 0)
       /\ \A i \in WrittenWith(<<"-", "5">>) : ~YieldsFrameWithLine(i, 0 - 5)
  /\ \A k \in 1..Len(frames) : frames[k].line >= 0

\* a trace with a line numbered 0 and a line numbered -5: one frame, line 0
C24_Witness ==
  /\ ParseEnded
  /\ TraceLines = <<BareLine(<<"x", ".", "r", "b">>, <<"0">>), FromLine(<<"a", "/", "x", ".", "r", "b">>, <<"-", "5">>, <<"f">>)>>
  /\ Len(frames) = 1
  /\ frames[1].line = 0
  /\ origin[1].line = 1

\* ------------------------------------------------------------------------
\* Claim C25 (analyzeStackTrace: the cap on analyzed frames)
\* ------------------------------------------------------------------------
\* the candidate paths of the first five frames
CandidatesOfFirstFive ==
  UNION {{possiblePaths(frames[k])[j] : j \in 1..Len(possiblePaths(frames[k]))} :
           k \in 1..Min2(Len(frames), 5)}

\* C25: for a trace that parses to n frames, the analysis lists all n frames
\* and resolves only the first min(n, 5), in frame order, each with exactly
\* one block (code context or not-found); no file is read for a frame after
\* the fifth.
C25_FirstFiveResolved ==
  /\ Len(blocks) <= 5
  /\ \A i \in 1..Len(reads) : reads[i] \in CandidatesOfFirstFive
  /\ (pc = "done" /\ Len(frames) > 0) =>
       /\ Len(listing) = Len(frames)
       /\ Len(blocks) = Min2(Len(frames), 5)
       /\ \A k \in 1..Len(blocks) :
            /\ blocks[k].kind \in {"context", "notfound"}
            /\ blocks[k].filename = frames[k].filename
            /\ blocks[k].line = frames[k].line

\* seven frames: five blocks, and z.rb of the sixth frame, which exists, is
\* not read
C25_Witness ==
  /\ pc = "done"
  /\ Len(frames) = 7
  /\ Len(listing) = 7
  /\ Len(blocks) = 5
  /\ frames[6].filename = ZPath
  /\ fs[ZPath] = "short"
  /\ \A i \in 1..Len(reads) : reads[i] # ZPath
  /\ Len(reads) > 0

\* ------------------------------------------------------------------------
\* The event's stack trace through extractStackTrace and parseStackTrace
\* ------------------------------------------------------------------------
\* the frames of the first exception of the event investigate was given, the
\* most recent first
GivenFrames ==
  IF Len(inv.given) = 0 THEN <<>> ELSE Reversed(inv.given[1].frames)

\* parseStackTrace has returned the frames of the text of extractStackTrace
TextParsed ==
  inv.pc = "trace" /\ pc \in {"analyze", "done"}

\* C26: for an event whose first exception has n >= 1 frames, parsing the
\* text of extractStackTrace yields exactly n frames, the i-th with the
\* function (or '<anonymous>'), the line number and the file basename of the
\* i-th frame of the event counted from the most recent one; the header line
\* gives no frame.
C26_ParsedFramesAreEventFrames ==
  TextParsed =>
    /\ Len(frames) = Len(GivenFrames)
    /\ \A i \in 1..Min2(Len(frames), Len(GivenFrames)) :
         /\ frames[i].function = (IF GivenFrames[i].function = <<>> THEN Anonymous
                                  ELSE GivenFrames[i].function)
         /\ frames[i].line = GivenFrames[i].lineno
         /\ frames[i].filename = BaseName(GivenFrames[i].filename)

\* extractStackTrace has been called on the event
TraceExtracted ==
  inv.pc \in {"trace", "files", "analysis"} \/ (inv.pc = "returned" /\ inv.result = "report")

\* C27: extractStackTrace leaves the event unchanged: after the call the
\* event is as it was given, a second call returns the text of the first,
\* and extractRelevantFiles returns what it returns on the event as given.
C27_EventUnchanged ==
  TraceExtracted =>
    /\ inv.event = inv.given
    /\ extractStackTrace(inv.event).text = inv.stackTrace
    /\ extractRelevantFiles(inv.event) = extractRelevantFiles(inv.given)

\* ------------------------------------------------------------------------
\* The result of investigate
\* ------------------------------------------------------------------------
Rank(heading) ==
  CHOOSE i \in 1..Len(Headings) : Headings[i] = heading

HasStackTrace(event) ==
  \E v \in 1..Len(event) : Len(event[v].frames) > 0

HasInAppFile(event) ==
  \E i \in 1..Len(AllFrames(event)) :
    AllFrames(event)[i].in_app /\ AllFrames(event)[i].filename # <<>>

Contains(xs, x) ==
  \E i \in 1..Len(xs) : xs[i] = x

\* C29: investigate never raises; when fetching the issue details or the
\* latest event fails the result is the error message, with no section of
\* the report; otherwise the sections are in the order header, stack trace
\* analysis (only with a stack trace), relevant files (only with an in-app
\* file), issue analysis, suggested fixes (only when includeFix).
C29_NeverRaisesSectionsInOrder ==
  /\ inv.result # "raised"
  /\ inv.pc = "returned" /\ sentry.pc = "failed" =>
       inv.result = "error" /\ inv.report = <<>>
  /\ inv.pc = "returned" /\ sentry.pc = "done" =>
       /\ inv.result = "report"
       /\ inv.report[1] = Headings[1]
       /\ \A i \in 1..(Len(inv.report) - 1) : Rank(inv.report[i]) <= Rank(inv.report[i + 1])
       /\ \A i \in 2..Len(inv.report) : inv.report[i] # Headings[1]
       /\ Contains(inv.report, Headings[2]) => HasStackTrace(inv.given)
       /\ Contains(inv.report, Headings[3]) => HasInAppFile(inv.given)
       /\ Len(SelectSeq(inv.report, LAMBDA h : h = Headings[3])) <= 1
       /\ Len(SelectSeq(inv.report, LAMBDA h : h = Headings[4])) = 1
       /\ Len(SelectSeq(inv.report, LAMBDA h : h = Headings[5])) = (IF inv.includeFix THEN 1 ELSE 0)

\* a report returned with every section
C29_Witness ==
  /\ inv.pc = "returned"
  /\ inv.result = "report"
  /\ Contains(inv.report, Headings[2])
  /\ Contains(inv.report, Headings[3])
  /\ Contains(inv.report, Headings[5])

\* ------------------------------------------------------------------------
\* The tool calls of the server
\* ------------------------------------------------------------------------
\* C28: a call whose name is not one of the registered tools is answered
\* with an error of code MethodNotFound, and no operation of a service has
\* been invoked.
C28_UnknownToolMethodNotFound ==
  tool.pc = "returned" /\ tool.name \notin ToolCases[tool.version] =>
    /\ tool.response.kind = "error"
    /\ tool.response.code = "MethodNotFound"
    /\ tool.effects = <<>>

\* the positions of the effect log with the operation op
EffectsOf(op) ==
  {i \in 1..Len(tool.effects) : tool.effects[i].op = op}

Fulfilled(op) ==
  {i \in EffectsOf(op) : tool.effects[i].ok}

====
